---------------------------- MODULE Spec2Model ----------------------------
(***************************************************************************)
(* A model of the numeric core of the GDP growth dashboard (src/utils.py): *)
(* calculate_required_growth, project_population,                          *)
(* fetch_country_sector_gdp (sector normalization),                        *)
(* fetch_sector_growth_projections (least-squares sector trend) and        *)
(* project_median_age_evidence_based (median-age trend), and of the chart  *)
(* of India's sector breakdown (src/plotting_utils.py, src/ai_insights.py).*)
(*                                                                         *)
(* Numbers.  Python floats are modelled in decimal fixed point: a float x  *)
(* is the integer x * Scale, Scale = 10^Digits, and every division and     *)
(* multiplication rounds down to a multiple of 1/Scale, as a float         *)
(* operation rounds to a representable value.  A result that needs more    *)
(* digits than the arithmetic has is therefore inexact in the model, as it *)
(* is in the program.  Python's None is [kind |-> "None"], a float is      *)
(* [kind |-> "float"], a complex number is [kind |-> "complex"] and an     *)
(* exception leaving a function is [kind |-> "raise"].                     *)
(***************************************************************************)
EXTENDS Integers, Sequences, FiniteSets, TLC

VARIABLES growthCall, popCall, gdpCall, trendCall, medianCall, sunburstCall,
          dashboardRun

vars ==
    <<growthCall, popCall, gdpCall, trendCall, medianCall, sunburstCall,
      dashboardRun>>

\* ------------------------------------------------------------ bounds
\* Decimal digits kept by the fixed-point arithmetic.
Digits == 2
\* calculate_required_growth: current and target range over -1..MaxAmount,
\* the horizon over -1..MaxTime.
MaxAmount == 10
MaxTime == 3
\* project_population: base_year and target_year range over
\* PopFirstYear .. PopFirstYear + PopSpan, across the three band limits.
PopFirstYear == 2020
PopSpan == 22
\* fetch_sector_growth_projections: the series of the sector that answers
\* with data has at most MaxPoints entries, one per year, the years three
\* apart and ending at TrendLastYear; target_year is TrendLastYear - 1,
\* TrendLastYear, TrendLastYear + 1 or TrendLastYear + TrendHorizon.
MaxPoints == 3
TrendLastYear == 2023
TrendHorizon == 8

Scale == 10 ^ Digits

\* ------------------------------------------------------------ values
None == [kind |-> "None", val |-> 0, exc |-> ""]
Float(x) == [kind |-> "float", val |-> x, exc |-> ""]
Complex == [kind |-> "complex", val |-> 0, exc |-> ""]
Raise(e) == [kind |-> "raise", val |-> 0, exc |-> e]

Abs(x) == IF x < 0 THEN -x ELSE x

\* a / b of two numbers on the same scale, b # 0, rounded down
FDiv(a, b) == IF b > 0 THEN (a * Scale) \div b ELSE ((-a) * Scale) \div (-b)
\* a * b of two fixed-point numbers, rounded down
FMul(a, b) == (a * b) \div Scale

\* x ** n for a fixed-point x >= 0 and an integer n >= 0, by repeated
\* multiplication
RECURSIVE FPow(_, _)
FPow(x, n) == IF n = 0 THEN Scale ELSE FMul(FPow(x, n - 1), x)

\* FPow(k, n) <= x, leaving the loop as soon as the power passes x
RECURSIVE PowLeq(_, _, _, _)
PowLeq(acc, k, n, x) ==
    IF n = 0 THEN acc <= x
    ELSE IF acc > x /\ k >= Scale THEN FALSE
    ELSE PowLeq(FMul(acc, k), k, n - 1, x)

RECURSIVE RootSearch(_, _, _, _)
RootSearch(lo, hi, x, n) ==
    IF lo >= hi THEN lo
    ELSE LET mid == (lo + hi + 1) \div 2
         IN  IF PowLeq(Scale, mid, n, x) THEN RootSearch(mid, hi, x, n)
             ELSE RootSearch(lo, mid - 1, x, n)

\* x ** (1/n) for a fixed-point x >= 0 and an integer n >= 1, rounded down:
\* the largest k with k ** n <= x
Root(x, n) == RootSearch(0, IF x > Scale THEN x ELSE Scale, x, n)

\* ------------------------------------------- calculate_required_growth
\* the formula without the subtraction of 1
GrowthFormula_NoMinusOne(current, target, time) ==
    IF current = 0 THEN Raise("ZeroDivisionError")
    ELSE LET q == FDiv(target, current)
         IN  IF q <= 0 THEN Raise("ValueError")
             ELSE IF time = 0 THEN Raise("ZeroDivisionError")
             ELSE IF time > 0 THEN Float(100 * Root(q, time))
             ELSE Float(100 * Root(FDiv(Scale, q), -time))

\* 100 * (10 ** (math.log10(target / current) / time) - 1): the division
\* raises for current = 0, log10 raises for a ratio <= 0, the division by
\* time raises for time = 0; 10 ** (log10(q) / time) is the time-th root
\* of q.
GrowthFormula(current, target, time) ==
    IF current = 0 THEN Raise("ZeroDivisionError")
    ELSE LET q == FDiv(target, current)
         IN  IF q <= 0 THEN Raise("ValueError")
             ELSE IF time = 0 THEN Raise("ZeroDivisionError")
             ELSE IF time > 0 THEN Float(100 * (Root(q, time) - Scale))
             ELSE Float(100 * (Root(FDiv(Scale, q), -time) - Scale))

\* the guard without its test of current
calculate_required_growth_NoCurrentTest(current, target, time) ==
    IF target > 0 /\ time > 0
    THEN GrowthFormula(current, target, time)
    ELSE None

\* the formula without the division by time
calculate_required_growth_NoRoot(current, target, time) ==
    IF current > 0 /\ target > 0 /\ time > 0
    THEN GrowthFormula(current, target, 1)
    ELSE None

calculate_required_growth(current, target, time) ==
    IF current > 0 /\ target > 0 /\ time > 0
    THEN GrowthFormula(current, target, time)
    ELSE None

GrowthIdle ==
    [called |-> FALSE, current |-> 0, target |-> 0, time |-> 0, ret |-> None]

\* the calls of calculate_required_growth that are checked
GrowthInputs ==
    { [called |-> FALSE, current |-> current, target |-> target,
       time |-> time, ret |-> None] :
        current \in -1 .. MaxAmount, target \in -1 .. MaxAmount,
        time \in -1 .. MaxTime }

CalculateRequiredGrowth ==
    /\ ~growthCall.called
    /\ growthCall' = [growthCall EXCEPT
            !.called = TRUE,
            !.ret = calculate_required_growth(growthCall.current,
                        growthCall.target, growthCall.time)]
    /\ UNCHANGED <<popCall, gdpCall, trendCall, medianCall, sunburstCall,
                 dashboardRun>>

\* ---------------------------------------------------- project_population
\* the bands tested with < in place of <=
get_growth_rate_StrictThresholds(year) ==
    IF year < 2025 THEN 10
    ELSE IF year < 2030 THEN 8
    ELSE IF year < 2040 THEN 5
    ELSE 3

\* get_growth_rate(year), in thousandths: 0.010, 0.008, 0.005, 0.003
get_growth_rate(year) ==
    IF year <= 2025 THEN 10
    ELSE IF year <= 2030 THEN 8
    ELSE IF year <= 2040 THEN 5
    ELSE 3

\* range(a, b): a, a + 1, ..., b - 1
PyRange(a, b) == [i \in 1 .. (IF b > a THEN b - a ELSE 0) |-> a + i - 1]

\* pop *= (1 + get_growth_rate(y))
Compound(pop, y) == (pop * (1000 + get_growth_rate(y))) \div 1000

\* for y in years[i..]: pop *= (1 + get_growth_rate(y))
RECURSIVE ForYears(_, _, _)
ForYears(pop, years, i) ==
    IF i > Len(years) THEN pop
    ELSE ForYears(Compound(pop, years[i]), years, i + 1)

\* the loop starting at base_year instead of base_year + 1
project_population_FromBaseYear(base_pop, base_year, target_year) ==
    LET years == PyRange(base_year, target_year + 1)
    IN  [years |-> years, ret |-> Float(ForYears(base_pop, years, 1))]

\* the loop stopping before target_year
project_population_BeforeTarget(base_pop, base_year, target_year) ==
    LET years == PyRange(base_year + 1, target_year)
    IN  [years |-> years, ret |-> Float(ForYears(base_pop, years, 1))]

\* project_population with the years its loop ran over
project_population(base_pop, base_year, target_year) ==
    LET years == PyRange(base_year + 1, target_year + 1)
    IN  [years |-> years, ret |-> Float(ForYears(base_pop, years, 1))]

\* base populations, in millions
BasePops == {1000 * Scale, 1417 * Scale}

\* a growth schedule: bands <<last year, rate>> in thousandths, and the rate
\* of every later year
DefaultSchedule ==
    [bands |-> << <<2025, 10>>, <<2030, 8>>, <<2040, 5>> >>, final |-> 3]
FlatSchedule == [bands |-> << >>, final |-> 10]

PopIdle ==
    [called |-> FALSE, base_pop |-> 0, base_year |-> 0, target_year |-> 0,
     schedule |-> DefaultSchedule, years |-> << >>, ret |-> None]

\* the calls project_population(base_pop, base_year, target_year) of a
\* caller who wants the rates of schedule applied; the function has no
\* parameter that could carry the schedule
PopInputs ==
    { [called |-> FALSE, base_pop |-> p, base_year |-> b, target_year |-> t,
       schedule |-> s, years |-> << >>, ret |-> None] :
        p \in BasePops,
        b \in PopFirstYear .. PopFirstYear + PopSpan,
        t \in PopFirstYear .. PopFirstYear + PopSpan,
        s \in {DefaultSchedule, FlatSchedule} }

ProjectPopulation ==
    /\ ~popCall.called
    /\ LET r == project_population(popCall.base_pop, popCall.base_year,
                                   popCall.target_year)
       IN  popCall' = [popCall EXCEPT !.called = TRUE, !.years = r.years,
                                      !.ret = r.ret]
    /\ UNCHANGED <<growthCall, gdpCall, trendCall, medianCall, sunburstCall,
                 dashboardRun>>

\* ------------------------------------------------- World Bank responses
Sectors == {"agriculture", "industry", "services"}
\* the iteration order of the indicators dict
SectorOrder == <<"agriculture", "industry", "services">>

\* What requests.get(...) gives for one indicator: an exception, a status
\* other than 200, a body without entries (len(data) <= 1 or an empty
\* data[1]), or a body whose data[1] is a list of entries.
RespException == [kind |-> "exception", entries |-> << >>]
RespStatus == [kind |-> "status", entries |-> << >>]
RespNoData == [kind |-> "nodata", entries |-> << >>]
RespData(entries) == [kind |-> "data", entries |-> entries]

Entry(date, value) == [date |-> date, value |-> value]

\* ------------------------------------------------ fetch_country_sector_gdp
NoEntry == [date |-> 0, value |-> None]

\* the loop over data[1]: the first entry with the highest date among the
\* entries whose value is not None, or NoEntry
RECURSIVE LatestEntry(_, _, _)
LatestEntry(entries, i, latest_entry) ==
    IF i > Len(entries) THEN latest_entry
    ELSE LET entry == entries[i]
         IN  IF entry.value # None
                /\ (latest_entry = NoEntry \/ entry.date > latest_entry.date)
             THEN LatestEntry(entries, i + 1, entry)
             ELSE LatestEntry(entries, i + 1, latest_entry)

\* the entry the loop body stores for one sector, or NoEntry
SectorEntry(resp) ==
    IF resp.kind = "data" THEN LatestEntry(resp.entries, 1, NoEntry)
    ELSE NoEntry

\* sector_data after the loop over the indicators
FetchedSectorData(resps) ==
    [s \in {x \in Sectors : SectorEntry(resps[x]) # NoEntry} |->
        [percentage |-> SectorEntry(resps[s]).value.val,
         year |-> SectorEntry(resps[s]).date]]

RECURSIVE SumPercentage(_, _)
SumPercentage(sector_data, i) ==
    IF i > Len(SectorOrder) THEN 0
    ELSE (IF SectorOrder[i] \in DOMAIN sector_data
          THEN sector_data[SectorOrder[i]].percentage ELSE 0)
         + SumPercentage(sector_data, i + 1)

RECURSIVE MaxYear(_, _)
MaxYear(sector_data, i) ==
    IF i > Len(SectorOrder) THEN 0
    ELSE LET rest == MaxYear(sector_data, i + 1)
             y == IF SectorOrder[i] \in DOMAIN sector_data
                  THEN sector_data[SectorOrder[i]].year ELSE 0
         IN  IF y > rest THEN y ELSE rest

NoSectorData == [s \in {} |-> 0]
GdpNone == [kind |-> "None", sectors |-> NoSectorData, year |-> 0, exc |-> ""]
GdpRaise(e) == [kind |-> "raise", sectors |-> NoSectorData, year |-> 0, exc |-> e]

\* the quotient percentage / total_percentage not multiplied by 100
NormalizeSectors_NoTimes100(sector_data, total_percentage) ==
    IF total_percentage = 0 THEN GdpRaise("ZeroDivisionError")
    ELSE [kind |-> "dict",
          sectors |-> [s \in DOMAIN sector_data |->
              [percentage |->
                   FDiv(sector_data[s].percentage, total_percentage),
               year |-> sector_data[s].year]],
          year |-> MaxYear(sector_data, 1),
          exc |-> ""]

\* (percentage / total_percentage) * 100 for every sector
NormalizeSectors(sector_data, total_percentage) ==
    IF total_percentage = 0 THEN GdpRaise("ZeroDivisionError")
    ELSE [kind |-> "dict",
          sectors |-> [s \in DOMAIN sector_data |->
              [percentage |->
                   FDiv(sector_data[s].percentage, total_percentage) * 100,
               year |-> sector_data[s].year]],
          year |-> MaxYear(sector_data, 1),
          exc |-> ""]

\* the normalization without the test of total_percentage
normalize_NoTotalTest(sector_data) ==
    IF Cardinality(DOMAIN sector_data) >= 2
    THEN NormalizeSectors(sector_data, SumPercentage(sector_data, 1))
    ELSE GdpNone

\* the normalization dividing by 100 instead of by total_percentage
normalize_NoRescale(sector_data) ==
    IF Cardinality(DOMAIN sector_data) >= 2
          /\ SumPercentage(sector_data, 1) > 0
    THEN NormalizeSectors(sector_data, 100 * Scale)
    ELSE GdpNone

\* the end of fetch_country_sector_gdp: the sector_data the loop collected,
\* normalized, or None
normalize(sector_data) ==
    IF Cardinality(DOMAIN sector_data) >= 2
    THEN LET total_percentage == SumPercentage(sector_data, 1)
         IN  IF total_percentage > 0
             THEN NormalizeSectors(sector_data, total_percentage)
             ELSE GdpNone
    ELSE GdpNone

fetch_country_sector_gdp(resps) == normalize(FetchedSectorData(resps))

\* the values and dates of the entries of a response, one entry per date
GdpValues == {None, Float(0), Float(1 * Scale), Float(2 * Scale)}
GdpDates == {2022, 2023}
GdpEntries == {Entry(d, v) : d \in GdpDates, v \in GdpValues}

\* the lists of at most n entries of entrySet, one entry per date
RECURSIVE EntryLists(_, _)
EntryLists(entrySet, n) ==
    IF n = 0 THEN {<< >>}
    ELSE LET shorter == EntryLists(entrySet, n - 1)
         IN  shorter \cup
             { Append(l[1], l[2]) :
                 l \in { p \in {x \in shorter : Len(x) = n - 1} \X entrySet :
                         \A i \in 1 .. Len(p[1]) : p[1][i].date # p[2].date } }

\* the shares of the calls with one entry per sector
ShareValues ==
    {None, Float(0), Float(1 * Scale), Float(2 * Scale), Float(10 * Scale),
     Float(80 * Scale)}

GdpResponses ==
    {RespException, RespStatus, RespNoData}
    \cup { RespData(l) :
             l \in EntryLists(GdpEntries, Cardinality(GdpDates)) \ {<< >>} }

GdpIdle ==
    [called |-> FALSE, resps |-> [s \in Sectors |-> RespNoData],
     fetched |-> NoSectorData, ret |-> GdpNone]

GdpInputs ==
    { [called |-> FALSE, resps |-> r, fetched |-> NoSectorData,
       ret |-> GdpNone] : r \in [Sectors -> GdpResponses] }

FetchCountrySectorGdp ==
    /\ ~gdpCall.called
    /\ gdpCall' = [gdpCall EXCEPT
            !.called = TRUE,
            !.fetched = FetchedSectorData(gdpCall.resps),
            !.ret = fetch_country_sector_gdp(gdpCall.resps)]
    /\ UNCHANGED <<growthCall, popCall, trendCall, medianCall, sunburstCall,
                 dashboardRun>>

\* ---------------------------------------- fetch_sector_growth_projections
\* historical_data: the entries whose value is not None, in response order
RECURSIVE HistoricalData(_, _)
HistoricalData(entries, i) ==
    IF i > Len(entries) THEN << >>
    ELSE IF entries[i].value # None
         THEN <<[year |-> entries[i].date, value |-> entries[i].value.val]>>
              \o HistoricalData(entries, i + 1)
         ELSE HistoricalData(entries, i + 1)

\* d placed after the last element of the sorted list whose year is <= its
\* year
RECURSIVE InsertByYear(_, _)
InsertByYear(sorted, d) ==
    IF sorted = << >> THEN <<d>>
    ELSE IF sorted[Len(sorted)].year <= d.year THEN Append(sorted, d)
    ELSE Append(InsertByYear(SubSeq(sorted, 1, Len(sorted) - 1), d),
                sorted[Len(sorted)])

\* the sort left out
SortByYear_Unsorted(data) == data

\* historical_data.sort(key=lambda x: x['year']): a stable sort
RECURSIVE SortByYear(_)
SortByYear(data) ==
    IF data = << >> THEN << >>
    ELSE InsertByYear(SortByYear(SubSeq(data, 1, Len(data) - 1)),
                      data[Len(data)])

\* sum(seq)
RECURSIVE PySum(_)
PySum(seq) ==
    IF seq = << >> THEN 0
    ELSE PySum(SubSeq(seq, 1, Len(seq) - 1)) + seq[Len(seq)]

NoProjection ==
    [current_value |-> 0, projected_value |-> 0, annual_growth_rate |-> None,
     trend_slope |-> 0, intercept |-> 0, data_points |-> 0,
     first_year |-> 0, last_year |-> 0]

\* the rate taken over years_diff + 1 years
AnnualGrowth_OneYearMore(projected_value, current_value, years_diff) ==
    IF current_value = 0 THEN Raise("ZeroDivisionError")
    ELSE LET ratio == FDiv(projected_value, current_value)
         IN  IF ratio < 0 THEN Complex
             ELSE Float((Root(ratio, years_diff + 1) - Scale) * 100)

\* ((projected_value / current_value) ** (1/years_diff) - 1) * 100 for
\* years_diff > 0: the division raises for current_value = 0; a negative
\* ratio to the power 1/years_diff is a complex number unless the exponent
\* is 1.0
AnnualGrowth(projected_value, current_value, years_diff) ==
    IF current_value = 0 THEN Raise("ZeroDivisionError")
    ELSE LET ratio == FDiv(projected_value, current_value)
         IN  IF years_diff = 1 THEN Float((ratio - Scale) * 100)
             ELSE IF ratio < 0 THEN Complex
             ELSE Float((Root(ratio, years_diff) - Scale) * 100)

\* the intercept without the division by n
Intercept_NotAveraged(sum_y, slope, sum_x, n) == sum_y - slope * sum_x

\* intercept = (sum_y - slope * sum_x) / n
Intercept(sum_y, slope, sum_x, n) == (sum_y - slope * sum_x) \div n

\* the regression and the entry of projections for a sorted series of at
\* least 3 points; [raised, entry]
TrendOf(data, target_year) ==
    LET years == [i \in 1 .. Len(data) |-> data[i].year]
        values == [i \in 1 .. Len(data) |-> data[i].value]
        n == Len(years)
        sum_x == PySum(years)
        sum_y == PySum(values)
        sum_xy == PySum([i \in 1 .. n |-> years[i] * values[i]])
        sum_x2 == PySum([i \in 1 .. n |-> years[i] * years[i]])
        denominator == n * sum_x2 - sum_x * sum_x
    IN  IF denominator = 0
        THEN [raised |-> TRUE, entry |-> NoProjection]
        ELSE LET slope == (n * sum_xy - sum_x * sum_y) \div denominator
                 intercept == Intercept(sum_y, slope, sum_x, n)
                 projected_value == slope * target_year + intercept
                 current_value == values[n]
                 years_diff == target_year - years[n]
                 annual_growth ==
                     IF years_diff > 0
                     THEN AnnualGrowth(projected_value, current_value,
                                       years_diff)
                     ELSE Float(0)
             IN  IF annual_growth.kind = "raise"
                 THEN [raised |-> TRUE, entry |-> NoProjection]
                 ELSE [raised |-> FALSE,
                       entry |->
                          [current_value |-> current_value,
                           projected_value |-> projected_value,
                           annual_growth_rate |-> annual_growth,
                           trend_slope |-> slope,
                           intercept |-> intercept,
                           data_points |-> n,
                           first_year |-> years[1],
                           last_year |-> years[n]]]

\* a series of 2 points accepted
EnoughData_Two(historical_data) == Len(historical_data) >= 2

\* len(historical_data) >= 3
EnoughData(historical_data) == Len(historical_data) >= 3

\* the turn that stores an entry although the regression raised
SectorTrend_StoresRaised(resp, target_year) ==
    IF resp.kind = "exception"
    THEN [printed |-> "Error fetching", stored |-> FALSE, entry |-> NoProjection]
    ELSE IF resp.kind = "status"
    THEN [printed |-> "API request failed", stored |-> FALSE,
          entry |-> NoProjection]
    ELSE IF resp.kind = "nodata"
    THEN [printed |-> "No data available", stored |-> FALSE,
          entry |-> NoProjection]
    ELSE LET historical_data == HistoricalData(resp.entries, 1)
         IN  IF EnoughData(historical_data)
             THEN LET t == TrendOf(SortByYear(historical_data), target_year)
                  IN  [printed |-> "", stored |-> TRUE, entry |-> t.entry]
             ELSE [printed |-> "Insufficient data", stored |-> FALSE,
                   entry |-> NoProjection]

\* One turn of the loop over the indicators: what is printed ("" when a
\* projection is stored) and whether projections[sector_name] is set.
SectorTrend(resp, target_year) ==
    IF resp.kind = "exception"
    THEN [printed |-> "Error fetching", stored |-> FALSE, entry |-> NoProjection]
    ELSE IF resp.kind = "status"
    THEN [printed |-> "API request failed", stored |-> FALSE,
          entry |-> NoProjection]
    ELSE IF resp.kind = "nodata"
    THEN [printed |-> "No data available", stored |-> FALSE,
          entry |-> NoProjection]
    ELSE LET historical_data == HistoricalData(resp.entries, 1)
         IN  IF EnoughData(historical_data)
             THEN LET t == TrendOf(SortByYear(historical_data), target_year)
                  IN  IF t.raised
                      THEN [printed |-> "Error fetching", stored |-> FALSE,
                            entry |-> NoProjection]
                      ELSE [printed |-> "", stored |-> TRUE,
                            entry |-> t.entry]
             ELSE [printed |-> "Insufficient data", stored |-> FALSE,
                   entry |-> NoProjection]

\* one try around the whole loop: the first exception ends it
fetch_sector_growth_projections_OneTry(resps, target_year) ==
    LET turn == [s \in Sectors |-> SectorTrend(resps[s], target_year)]
        reached(i) ==
            \A j \in 1 .. i :
                turn[SectorOrder[j]].printed # "Error fetching"
    IN  [projections |->
            [s \in {SectorOrder[i] : i \in {j \in 1 .. Len(SectorOrder) :
                        reached(j) /\ turn[SectorOrder[j]].stored}} |->
                turn[s].entry],
         printed |-> [s \in Sectors |-> turn[s].printed],
         raised |-> FALSE]

\* fetch_sector_growth_projections(target_year): the returned projections
\* and what was printed for each sector
fetch_sector_growth_projections(resps, target_year) ==
    LET turn == [s \in Sectors |-> SectorTrend(resps[s], target_year)]
    IN  [projections |->
            [s \in {x \in Sectors : turn[x].stored} |-> turn[s].entry],
         printed |-> [s \in Sectors |-> turn[s].printed],
         raised |-> FALSE]

\* the series: one entry per year in any order, values 0, 1, 2 or None
TrendYears == {TrendLastYear - 3 * k : k \in 0 .. MaxPoints - 1}
TrendValues == {None, Float(0), Float(1 * Scale), Float(2 * Scale)}
TrendEntries == {Entry(d, v) : d \in TrendYears, v \in TrendValues}
TrendTargets ==
    {TrendLastYear - 1, TrendLastYear, TrendLastYear + 1,
     TrendLastYear + TrendHorizon}

TrendSeriesResponses ==
    { RespData(l) : l \in EntryLists(TrendEntries, MaxPoints) \ {<< >>} }
TrendFailures == {RespException, RespStatus, RespNoData}

\* MaxPoints entries for the one year TrendLastYear
TrendSameYearResponses ==
    { RespData([i \in 1 .. MaxPoints |-> Entry(TrendLastYear, v[i])]) :
        v \in [1 .. MaxPoints -> TrendValues \ {None}] }

\* a series of MaxPoints years that ends at TrendLastYear with the value 2
\* after the value 1
RisingSeries ==
    RespData([i \in 1 .. MaxPoints |->
                 Entry(TrendLastYear - 3 * (MaxPoints - i),
                       Float(IF i = MaxPoints THEN 2 * Scale ELSE Scale))])

\* responses that end the turn of a sector without an entry: an exception,
\* a status other than 200, no data, one point, a division by zero
TrendMisses ==
    TrendFailures
        \cup {RespData(<<Entry(TrendLastYear, Float(Scale))>>),
              RespData([i \in 1 .. MaxPoints |->
                           Entry(TrendLastYear, Float(Scale))])}

\* one sector answers with r, the other two with the rising series
TrendBeside(one, r) ==
    [s \in Sectors |-> IF s = one THEN r ELSE RisingSeries]

\* one sector answers with r, the World Bank has no data for the other two
TrendResponses(one, r) == [s \in Sectors |-> IF s = one THEN r ELSE RespNoData]

TrendIdle ==
    [called |-> FALSE, target_year |-> 0,
     resps |-> [s \in Sectors |-> RespNoData],
     projections |-> NoSectorData, printed |-> [s \in Sectors |-> ""],
     raised |-> FALSE]

\* the call of fetch_sector_growth_projections(target_year) in which the
\* World Bank answers resps
TrendInput(target_year, resps) ==
    [called |-> FALSE, target_year |-> target_year, resps |-> resps,
     projections |-> NoSectorData, printed |-> [s \in Sectors |-> ""],
     raised |-> FALSE]

FetchSectorGrowthProjections ==
    /\ ~trendCall.called
    /\ LET r == fetch_sector_growth_projections(trendCall.resps,
                                                trendCall.target_year)
       IN  trendCall' = [trendCall EXCEPT
               !.called = TRUE, !.projections = r.projections,
               !.printed = r.printed, !.raised = r.raised]
    /\ UNCHANGED <<growthCall, popCall, gdpCall, medianCall, sunburstCall,
                 dashboardRun>>


\* ------------------------------------ project_median_age_evidence_based
\* round(x, 1): the nearest multiple of 0.1, a tie to the even one
Round1(x) ==
    LET u == Scale \div 10
        q == x \div u
        r == x % u
    IN  IF 2 * r < u THEN q * u
        ELSE IF 2 * r > u THEN (q + 1) * u
        ELSE IF q % 2 = 0 THEN q * u ELSE (q + 1) * u

\* the float with one decimal place written as its number of tenths
Age(tenths) == tenths * (Scale \div 10)

\* the fixed annual increase 0.3 of both fallbacks
DefaultIncrease == Age(3)

\* the historical estimates returned when the World Bank gives no series
HistoricalEstimates ==
    << <<1960, Age(198)>>, <<1965, Age(201)>>, <<1970, Age(204)>>,
       <<1975, Age(208)>>, <<1980, Age(212)>>, <<1985, Age(217)>>,
       <<1990, Age(223)>>, <<1995, Age(230)>>, <<2000, Age(235)>>,
       <<2005, Age(248)>>, <<2010, Age(261)>>, <<2015, Age(273)>>,
       <<2020, Age(282)>>, <<2023, Age(287)>> >>

\* estimated_median = 28.5 + (25 - under_14_pct) * 0.3, rounded to 0.1
EstimatedMedian(under_14_pct) ==
    Round1(Age(285) + FMul(25 * Scale - under_14_pct, Age(3)))

\* the (year, estimated median) pairs of the entries whose value is not
\* None, in response order
RECURSIVE MedianHistory(_, _)
MedianHistory(entries, i) ==
    IF i > Len(entries) THEN << >>
    ELSE IF entries[i].value # None
         THEN << <<entries[i].date, EstimatedMedian(entries[i].value.val)>> >>
              \o MedianHistory(entries, i + 1)
         ELSE MedianHistory(entries, i + 1)

\* fetch_historical_median_age(): the series of the World Bank response,
\* or the historical estimates after an exception, a status other than 200
\* or a response without entries
fetch_historical_median_age(resp) ==
    IF resp.kind = "data" THEN MedianHistory(resp.entries, 1)
    ELSE HistoricalEstimates

\* no increase where the fixed 0.3 is due
AnnualIncrease_ZeroFallback(historical_data) ==
    IF Len(historical_data) >= 2
    THEN LET n == Len(historical_data)
             total_increase == historical_data[n][2] - historical_data[1][2]
             total_years == historical_data[n][1] - historical_data[1][1]
         IN  IF total_years > 0 THEN total_increase \div total_years
             ELSE 0
    ELSE 0

\* the quotient taken whenever the two years differ
AnnualIncrease_AnyOrder(historical_data) ==
    IF Len(historical_data) >= 2
    THEN LET n == Len(historical_data)
             total_increase == historical_data[n][2] - historical_data[1][2]
             total_years == historical_data[n][1] - historical_data[1][1]
         IN  IF total_years > 0 THEN total_increase \div total_years
             ELSE IF total_years < 0
             THEN (0 - total_increase) \div (0 - total_years)
             ELSE DefaultIncrease
    ELSE DefaultIncrease

\* annual_increase: (ages[-1] - ages[0]) / (years[-1] - years[0]) for a
\* series of at least 2 points with years[-1] > years[0], else 0.3
AnnualIncrease(historical_data) ==
    IF Len(historical_data) >= 2
    THEN LET n == Len(historical_data)
             total_increase == historical_data[n][2] - historical_data[1][2]
             total_years == historical_data[n][1] - historical_data[1][1]
         IN  IF total_years > 0 THEN total_increase \div total_years
             ELSE DefaultIncrease
    ELSE DefaultIncrease

\* the projected age left unrounded
ProjectedAge_Unrounded(current_age, annual_increase, years_to_project) ==
    current_age + annual_increase * years_to_project

\* round(current_age + annual_increase * years_to_project, 1)
ProjectedAge(current_age, annual_increase, years_to_project) ==
    Round1(current_age + annual_increase * years_to_project)

\* project_median_age_evidence_based(current_age, base_year, target_year)
\* when the World Bank answers resp to its request for the series
project_median_age_evidence_based(current_age, base_year, target_year, resp) ==
    LET historical_data == fetch_historical_median_age(resp)
        annual_increase == AnnualIncrease(historical_data)
    IN  [historical_data |-> historical_data,
         annual_increase |-> annual_increase,
         ret |-> Float(ProjectedAge(current_age, annual_increase,
                                    target_year - base_year))]

\* the series of a response: one entry for each year of a set of years,
\* oldest first or newest first, with the under-14 share 25, 30 or None
MedianYears == {2015, 2020, 2023}
Under14Values == {None, Float(25 * Scale), Float(30 * Scale)}

\* the years of a set, ascending
RECURSIVE Ascending(_)
Ascending(S) ==
    IF S = {} THEN << >>
    ELSE LET m == CHOOSE y \in S : \A z \in S : z <= y
         IN  Append(Ascending(S \ {m}), m)

Reversed(seq) == [i \in 1 .. Len(seq) |-> seq[Len(seq) + 1 - i]]

MedianSeriesResponses ==
    UNION { UNION { { RespData([i \in 1 .. Len(Ascending(S)) |->
                               Entry(Ascending(S)[i], f[Ascending(S)[i]])]),
                      RespData(Reversed([i \in 1 .. Len(Ascending(S)) |->
                               Entry(Ascending(S)[i], f[Ascending(S)[i]])])) } :
                    f \in [S -> Under14Values] } :
            S \in (SUBSET MedianYears) \ {{}} }

\* two entries for one year
MedianSameYearResponses ==
    { RespData(<<Entry(y, v[1]), Entry(y, v[2])>>) :
        y \in MedianYears, v \in Under14Values \X Under14Values }

MedianResponses ==
    {RespException, RespStatus, RespNoData}
        \cup MedianSeriesResponses \cup MedianSameYearResponses

NoCall ==
    [resp |-> RespNoData, historical_data |-> << >>, annual_increase |-> 0,
     ret |-> None]

MedianIdle ==
    [current_age |-> 0, base_year |-> 0, target_year |-> 0,
     called |-> FALSE, first |-> NoCall, again |-> FALSE, second |-> NoCall]

\* the calls project_median_age_evidence_based(current_age, base_year,
\* target_year)
MedianInputs ==
    { [MedianIdle EXCEPT !.current_age = a, !.base_year = y[1],
                         !.target_year = y[2]] :
        a \in {Age(287), Age(270)},
        y \in {<<2023, 2023>>, <<2023, 2024>>, <<2023, 2047>>,
               <<2020, 2047>>} }

\* One call of project_median_age_evidence_based, and the same call made a
\* second time; the World Bank answers each call with a response of its own.
ProjectMedianAgeEvidenceBased ==
    /\ ~medianCall.again
    /\ \E resp \in MedianResponses :
          LET r == project_median_age_evidence_based(
                       medianCall.current_age, medianCall.base_year,
                       medianCall.target_year, resp)
              call == [resp |-> resp, historical_data |-> r.historical_data,
                       annual_increase |-> r.annual_increase, ret |-> r.ret]
          IN  medianCall' =
                 IF ~medianCall.called
                 THEN [medianCall EXCEPT !.called = TRUE, !.first = call]
                 ELSE [medianCall EXCEPT !.again = TRUE, !.second = call]
    /\ UNCHANGED <<growthCall, popCall, gdpCall, trendCall, sunburstCall,
                 dashboardRun>>

\* ------------------------------------------------ fetch_india_sector_gdp
\* the float with one decimal place written as its number of tenths
Tenths(n) == n * (Scale \div 10)

\* the sectors in the order of the dict, and their labels in the chart
IndiaSectorOrder ==
    <<"agriculture", "manufacturing", "construction", "mining", "utilities",
      "trade_hotels", "financial_services", "real_estate", "public_admin",
      "other_services">>

\* the breakdown with other_services at 21.1
fetch_india_sector_gdp_Other211 ==
    LET percentage ==
          [agriculture |-> 162, manufacturing |-> 130, construction |-> 78,
           mining |-> 25, utilities |-> 25, trade_hotels |-> 158,
           financial_services |-> 72, real_estate |-> 78,
           public_admin |-> 62, other_services |-> 211]
    IN  [s \in DOMAIN percentage |->
            [percentage |-> Tenths(percentage[s]), year |-> 2023]]

\* fetch_india_sector_gdp(): the fixed breakdown
fetch_india_sector_gdp ==
    LET percentage ==
          [agriculture |-> 162, manufacturing |-> 130, construction |-> 78,
           mining |-> 25, utilities |-> 25, trade_hotels |-> 158,
           financial_services |-> 72, real_estate |-> 78,
           public_admin |-> 62, other_services |-> 210]
    IN  [s \in DOMAIN percentage |->
            [percentage |-> Tenths(percentage[s]), year |-> 2023]]

\* ------------------------------------------------------- get_ai_insight
\* What a request to the LLM endpoint ends in: a 200 with a well-formed
\* body, a 200 with a body that lacks the expected keys, another status,
\* or an exception raised by the request.
LlmOutcomes == {"ok", "malformed", "status", "exception"}

\* a string: the text the endpoint wrote for the prompt about a sector and
\* its percentage, or the static sentence for them
Insight(source, sector_name, percentage) ==
    [kind |-> "str", source |-> source, sector_name |-> sector_name,
     percentage |-> percentage]

get_enhanced_static_insight(sector_name, percentage) ==
    Insight("static", sector_name, percentage)

\* get_openai_insight / get_huggingface_insight: no request without the
\* API key; the try holds the request and the reading of the body
get_keyed_insight(has_key, outcome, sector_name, percentage) ==
    IF ~has_key THEN get_enhanced_static_insight(sector_name, percentage)
    ELSE IF outcome = "ok" THEN Insight("llm", sector_name, percentage)
    ELSE get_enhanced_static_insight(sector_name, percentage)

\* the request and the reading of the body outside any try
get_local_llm_insight_NoExcept(outcome, sector_name, percentage) ==
    IF outcome = "ok" THEN Insight("llm", sector_name, percentage)
    ELSE IF outcome = "status"
    THEN get_enhanced_static_insight(sector_name, percentage)
    ELSE [kind |-> "raise", source |-> outcome, sector_name |-> sector_name,
          percentage |-> percentage]

get_local_llm_insight(outcome, sector_name, percentage) ==
    IF outcome = "ok" THEN Insight("llm", sector_name, percentage)
    ELSE get_enhanced_static_insight(sector_name, percentage)

Providers ==
    {"enhanced_static", "openai", "huggingface", "local_llm", "unknown"}

\* get_ai_insight(sector_name, percentage, sector_data) under the
\* configured provider, for the sector_data of the India breakdown
get_ai_insight(provider, has_key, outcome, sector_name, percentage) ==
    IF provider \in {"openai", "huggingface"}
    THEN get_keyed_insight(has_key, outcome, sector_name, percentage)
    ELSE IF provider = "local_llm"
    THEN get_local_llm_insight(outcome, sector_name, percentage)
    ELSE get_enhanced_static_insight(sector_name, percentage)

\* ----------------------------------------- create_sector_sunburst_chart
industry_sectors == <<"manufacturing", "construction", "mining", "utilities">>
services_sectors ==
    <<"trade_hotels", "financial_services", "real_estate", "public_admin",
      "other_services">>

\* sum(sector_data.get(sector, {}).get('percentage', 0) for sector in names)
GroupTotal(sector_data, names) ==
    PySum([i \in 1 .. Len(names) |->
              IF names[i] \in DOMAIN sector_data
              THEN sector_data[names[i]].percentage ELSE 0])

\* 'Farming' for agriculture, sector.replace('_', ' ').title() otherwise
SectorLabel(sector) ==
    [agriculture |-> "Farming", manufacturing |-> "Manufacturing",
     construction |-> "Construction", mining |-> "Mining",
     utilities |-> "Utilities", trade_hotels |-> "Trade Hotels",
     financial_services |-> "Financial Services",
     real_estate |-> "Real Estate", public_admin |-> "Public Admin",
     other_services |-> "Other Services"][sector]

\* utilities left out of the list of the industry sectors
ParentOf_UtilitiesInServices(sector) ==
    IF sector = "agriculture" THEN "Agriculture"
    ELSE IF sector \in {"manufacturing", "construction", "mining"}
    THEN "Industry"
    ELSE "Services"

ParentOf(sector) ==
    IF sector = "agriculture" THEN "Agriculture"
    ELSE IF \E i \in 1 .. Len(industry_sectors) : industry_sectors[i] = sector
    THEN "Industry"
    ELSE "Services"

\* the sector_name passed to get_ai_insight for a detailed sector:
\* "Agriculture" for agriculture, sector.replace('_', ' ').title() otherwise
InsightName(sector) ==
    IF sector = "agriculture" THEN "Agriculture" ELSE SectorLabel(sector)

\* labels, parents, values and hover_texts of the chart; the i-th call of
\* get_ai_insight meets the outcome outcomes[i]
create_sector_sunburst_chart(provider, has_key, outcomes) ==
    LET sector_data == fetch_india_sector_gdp
        agriculture_total == GroupTotal(sector_data, <<"agriculture">>)
        industry_total == GroupTotal(sector_data, industry_sectors)
        services_total == GroupTotal(sector_data, services_sectors)
        n == Len(IndiaSectorOrder)
    IN  [sector_data |-> sector_data,
         labels |-> <<"Agriculture", "Industry", "Services">>
                    \o [i \in 1 .. n |-> SectorLabel(IndiaSectorOrder[i])],
         parents |-> <<"", "", "">>
                     \o [i \in 1 .. n |-> ParentOf(IndiaSectorOrder[i])],
         values |-> <<agriculture_total, industry_total, services_total>>
                    \o [i \in 1 .. n |->
                           sector_data[IndiaSectorOrder[i]].percentage],
         hover_texts |->
            [i \in 1 .. n + 3 |->
                IF i = 1
                THEN get_ai_insight(provider, has_key, outcomes[i],
                                    "Agriculture", agriculture_total)
                ELSE IF i = 2
                THEN get_ai_insight(provider, has_key, outcomes[i],
                                    "Industry", industry_total)
                ELSE IF i = 3
                THEN get_ai_insight(provider, has_key, outcomes[i],
                                    "Services", services_total)
                ELSE get_ai_insight(provider, has_key, outcomes[i],
                         InsightName(IndiaSectorOrder[i - 3]),
                         sector_data[IndiaSectorOrder[i - 3]].percentage)]]

\* the environment of a chart: the configured provider, whether its API
\* key is set, and an endpoint that answers the first requests and fails
\* in one way from then on
SunburstIdle ==
    [called |-> FALSE, provider |-> "enhanced_static", has_key |-> FALSE,
     outcomes |-> << >>, sector_data |-> NoSectorData, labels |-> << >>,
     parents |-> << >>, values |-> << >>, hover_texts |-> << >>]

SunburstInputs ==
    { [SunburstIdle EXCEPT !.provider = p, !.has_key = k,
          !.outcomes = [i \in 1 .. Len(IndiaSectorOrder) + 3 |->
                           IF i <= answered THEN "ok" ELSE failure]] :
        p \in Providers, k \in BOOLEAN,
        answered \in 0 .. Len(IndiaSectorOrder) + 3,
        failure \in LlmOutcomes \ {"ok"} }

CreateSectorSunburstChart ==
    /\ ~sunburstCall.called
    /\ LET fig == create_sector_sunburst_chart(sunburstCall.provider,
                      sunburstCall.has_key, sunburstCall.outcomes)
       IN  sunburstCall' = [sunburstCall EXCEPT
               !.called = TRUE, !.sector_data = fig.sector_data,
               !.labels = fig.labels, !.parents = fig.parents,
               !.values = fig.values, !.hover_texts = fig.hover_texts]
    /\ UNCHANGED <<growthCall, popCall, gdpCall, trendCall, medianCall,
                 dashboardRun>>

\* ------------------------------------------- growth_counter_dashboard.py
\* an int
PyInt(x) == [kind |-> "int", val |-> x, exc |-> ""]

\* bool(v) of None, a float or an int
Truthy(v) == v.kind # "None" /\ v.val # 0

\* a name the script has not assigned in this run
Unbound == [kind |-> "unbound", val |-> 0, exc |-> ""]

\* what fetch_latest_gdp_growth(), fetch_india_population() and
\* fetch_india_dependency_ratio() return: (None, None) or (value, date)
NoResult == [value |-> None, date |-> None]
Result(v, d) == [value |-> Float(v), date |-> PyInt(d)]

\* the first entry of data[1] whose value is not None, or NoEntry
RECURSIVE FirstValue(_, _)
FirstValue(entries, i) ==
    IF i > Len(entries) THEN NoEntry
    ELSE IF entries[i].value # None THEN entries[i]
    ELSE FirstValue(entries, i + 1)

\* fetch_india_median_age(): the estimate from the under-14 share, or the
\* fixed (28.7, 2023)
fetch_india_median_age(resp) ==
    LET entry == IF resp.kind = "data" THEN FirstValue(resp.entries, 1)
                 ELSE NoEntry
    IN  IF entry # NoEntry
        THEN Result(EstimatedMedian(entry.value.val), entry.date)
        ELSE Result(Age(287), 2023)

\* project_population called whatever the years are
ShouldProject_NoYearTest(india_pop, india_pop_year, target_year) ==
    Truthy(india_pop) /\ Truthy(india_pop_year)

\* india_pop and india_pop_year and target_year > india_pop_year
ShouldProject(india_pop, india_pop_year, target_year) ==
    /\ Truthy(india_pop)
    /\ Truthy(india_pop_year)
    /\ target_year > india_pop_year.val

\* the fetched population used although a projection exists
PopulationForProjection_AlwaysCurrent(projected_pop, india_pop) ==
    india_pop

\* projected_pop if projected_pop else india_pop
PopulationForProjection(projected_pop, india_pop) ==
    IF Truthy(projected_pop) THEN projected_pop ELSE india_pop

\* x / y of two floats
PyDiv(x, y) ==
    IF y.kind = "None" THEN Raise("TypeError")
    ELSE IF y.val = 0 THEN Raise("ZeroDivisionError")
    ELSE Float(FDiv(x, y.val))

\* the per capita section: the calls of project_population, the names it
\* assigns, what it shows and the exception that leaves it
PerCapita(current, target, target_year, india, csv) ==
    LET india_pop == india.value
        india_pop_year == india.date
        invoke == ShouldProject(india_pop, india_pop_year, target_year)
        projected_pop ==
            IF invoke
            THEN project_population(india_pop.val, india_pop_year.val,
                                    target_year).ret
            ELSE None
        population_for_projection ==
            PopulationForProjection(projected_pop, india_pop)
        projected_per_capita == PyDiv(target, population_for_projection)
        raised == Truthy(india_pop) /\ projected_per_capita.kind = "raise"
    IN  [calls |-> IF invoke
                   THEN << <<india_pop.val, india_pop_year.val, target_year>> >>
                   ELSE << >>,
         projected_pop |-> projected_pop,
         current_per_capita |->
            IF Truthy(india_pop) THEN PyDiv(current, india_pop) ELSE Unbound,
         population_for_projection |->
            IF Truthy(india_pop) THEN population_for_projection ELSE Unbound,
         projected_per_capita |->
            IF Truthy(india_pop) /\ ~raised THEN projected_per_capita
            ELSE Unbound,
         per_capita |->
            IF raised THEN ""
            ELSE IF Truthy(india_pop) THEN "values"
            ELSE "Could not fetch India's population",
         closest |->
            IF raised \/ ~Truthy(india_pop) THEN ""
            ELSE IF csv = "read" THEN "list"
            ELSE "Could not read per capita GDP CSV",
         exc |-> IF raised THEN projected_per_capita.exc ELSE ""]

\* create_projected_sector_pie_chart(projections, target_year): a figure,
\* None, or the exception of (projected - current) / current
create_projected_sector_pie_chart(projections) ==
    IF DOMAIN projections = {} THEN "None"
    ELSE IF \E s \in DOMAIN projections : projections[s].current_value = 0
    THEN "ZeroDivisionError"
    ELSE "figure"

\* the projected sector distribution: what is shown, and the exception
\* that leaves the section
ProjectedSectors(resps, target_year) ==
    LET projections ==
            fetch_sector_growth_projections(resps, target_year).projections
        fig_projected == create_projected_sector_pie_chart(projections)
    IN  IF DOMAIN projections = {}
        THEN [shown |-> "Could not fetch sector growth projections",
              exc |-> ""]
        ELSE IF fig_projected = "figure"
        THEN [shown |-> "chart", exc |-> ""]
        ELSE [shown |-> "", exc |-> fig_projected]

\* one country of closest_5: "No code", "No data" or its chart
CountryShown(country) ==
    IF ~country.has_code THEN "No code"
    ELSE IF fetch_country_sector_gdp(country.resps).kind = "dict"
    THEN "chart"
    ELSE "No data"

\* the comparison section without its try
Comparison_NoHandler(csv, projected_per_capita, closest_5) ==
    IF csv # "read" THEN [warning |-> "", countries |-> << >>,
                          exc |-> "FileNotFoundError"]
    ELSE IF projected_per_capita = Unbound
    THEN [warning |-> "", countries |-> << >>, exc |-> "NameError"]
    ELSE [warning |-> "",
          countries |-> [i \in 1 .. Len(closest_5) |->
                            CountryShown(closest_5[i])],
          exc |-> ""]

\* the comparison section: its try reads the CSV, then reads
\* projected_per_capita, then shows the five countries; its except shows
\* the exception as a warning
Comparison(csv, projected_per_capita, closest_5) ==
    IF csv # "read"
    THEN [warning |-> "Could not fetch comparison country data: No such file",
          countries |-> << >>, exc |-> ""]
    ELSE IF projected_per_capita = Unbound
    THEN [warning |->
             "Could not fetch comparison country data: name 'projected_per_capita' is not defined",
          countries |-> << >>, exc |-> ""]
    ELSE [warning |-> "",
          countries |-> [i \in 1 .. Len(closest_5) |->
                            CountryShown(closest_5[i])],
          exc |-> ""]

\* india_pop and projected_pop
ShowDemographics(india_pop, projected_pop) ==
    Truthy(india_pop) /\ Truthy(projected_pop)

NoDemographics ==
    [rendered |-> FALSE, median_age |-> "", dependency_ratio |-> "",
     projected_median_age |-> "", exc |-> ""]

\* the demographic section of a run in the environment env; formatting a
\* projected_pop of None with ",.0f" raises TypeError
Demographics(india_pop, projected_pop, target_year, env) ==
    IF ShowDemographics(india_pop, projected_pop)
    THEN LET fetched == fetch_india_median_age(env.median_resp)
             median_age == fetched.value
             median_age_year == fetched.date
             dependency_ratio == env.dependency.value
             projected_median_age ==
                 IF Truthy(median_age) /\ Truthy(median_age_year)
                 THEN project_median_age_evidence_based(median_age.val,
                          median_age_year.val, target_year,
                          env.history_resp).ret
                 ELSE None
             raised == projected_pop.kind # "float"
         IN  [rendered |-> TRUE,
              median_age |-> IF Truthy(median_age) THEN "value" ELSE "N/A",
              dependency_ratio |->
                 IF Truthy(dependency_ratio) THEN "value" ELSE "N/A",
              projected_median_age |->
                 IF raised THEN ""
                 ELSE IF Truthy(projected_median_age) THEN "value"
                 ELSE "N/A",
              exc |-> IF raised THEN "TypeError" ELSE ""]
    ELSE NoDemographics

\* what one run has shown and assigned before anything ran
NothingShown ==
    [growth |-> "", latest |-> "", per_capita |-> "", closest |-> "",
     sunburst |-> "", projected |-> "", comparison |-> "",
     countries |-> << >>, demographics |-> NoDemographics,
     error |-> "", warning |-> ""]

NothingAssigned ==
    [calls |-> << >>, projected_pop |-> Unbound,
     current_per_capita |-> Unbound,
     population_for_projection |-> Unbound,
     projected_per_capita |-> Unbound]

\* current > 0 and target > 0 and time > 0
InputsPositive(env) ==
    /\ env.current > 0
    /\ env.target > 0
    /\ env.target_year - env.current_year > 0

\* what a section that an exception has skipped shows and passes on
SkippedSection(exc) == [shown |-> "", exc |-> exc]
SkippedComparison(exc) == [warning |-> "", countries |-> << >>, exc |-> exc]
SkippedDemographics(exc) == [NoDemographics EXCEPT !.exc = exc]

\* what the try has shown once its sections pc (per capita), ps (projected
\* sectors), cmp (comparison) and dem (demographics) are through; st.error
\* shows the exception that ended it
Shown(env, pc, ps, cmp, dem) ==
    LET growth == calculate_required_growth(env.current, env.target,
                      env.target_year - env.current_year)
        latest_growth == env.latest.value
    IN  [growth |-> IF growth # None THEN "value" ELSE "Error",
         latest |-> IF latest_growth # None /\ growth # None
                    THEN "value" ELSE "N/A",
         per_capita |-> pc.per_capita,
         closest |-> pc.closest,
         sunburst |-> IF pc.exc = "" THEN "chart" ELSE "",
         projected |-> ps.shown,
         comparison |-> cmp.warning,
         countries |-> cmp.countries,
         demographics |-> dem,
         error |-> dem.exc,
         warning |-> ""]

\* the names the per capita section has assigned
Assigned(pc) ==
    [calls |-> pc.calls, projected_pop |-> pc.projected_pop,
     current_per_capita |-> pc.current_per_capita,
     population_for_projection |-> pc.population_for_projection,
     projected_per_capita |-> pc.projected_per_capita]

\* the environment of one run: the inputs of the page, the year of the
\* clock, and what each request and the CSV file give
DashboardIdle ==
    [called |-> FALSE, current |-> 0, target |-> 0, current_year |-> 0,
     target_year |-> 0, latest |-> NoResult, india |-> NoResult,
     dependency |-> NoResult, csv |-> "missing", closest_5 |-> << >>,
     trend_resps |-> [s \in Sectors |-> RespNoData],
     median_resp |-> RespException, history_resp |-> RespException,
     shown |-> NothingShown, assigned |-> NothingAssigned, uncaught |-> ""]

\* fetch_india_population(): nothing, a population of 0, or a population
\* of a year before or at the target year
IndiaPopulations ==
    {NoResult, Result(0, 2023), Result(1417 * Scale, 2023),
     Result(1417 * Scale, 2029)}

\* a country of the CSV: without a code, without sector data, with data
Countries ==
    { [has_code |-> FALSE, resps |-> [s \in Sectors |-> RespNoData]],
      [has_code |-> TRUE, resps |-> [s \in Sectors |-> RespNoData]],
      [has_code |-> TRUE,
       resps |-> [s \in Sectors |->
                     RespData(<<Entry(2023, Float(2 * Scale))>>)]] }

\* the CSV file missing, or read and giving five closest countries
CsvFiles ==
    { [csv |-> "missing", closest_5 |-> << >>] }
        \cup { [csv |-> "read", closest_5 |-> c] :
                 c \in [1 .. 5 -> Countries] }

\* the three sector series of the projections: no data at all, or one
\* sector with three rising points
DashboardTrends ==
    { [s \in Sectors |-> RespNoData],
      TrendResponses("industry",
          RespData(<<Entry(2023, Float(3 * Scale)),
                     Entry(2022, Float(2 * Scale)),
                     Entry(2021, Float(1 * Scale))>>)) }

\* the requests for the under-14 share: both fail, or the latest year and
\* the series of two years are answered
MedianAgeResponses ==
    { [latest |-> RespException, series |-> RespException],
      [latest |-> RespData(<<Entry(2023, Float(25 * Scale))>>),
       series |-> RespData(<<Entry(2023, Float(25 * Scale)),
                             Entry(2020, Float(30 * Scale))>>)] }

DashboardInputs ==
    { [DashboardIdle EXCEPT
          !.current = 4 * Scale, !.target = 30 * Scale,
          !.current_year = 2026, !.target_year = t, !.latest = l,
          !.india = i, !.dependency = d, !.csv = f.csv,
          !.closest_5 = f.closest_5, !.trend_resps = r,
          !.median_resp = m.latest, !.history_resp = m.series] :
        t \in {2027, 2029},
        l \in {NoResult, Result(6 * Scale, 2023)},
        i \in IndiaPopulations,
        d \in {NoResult, Result(47 * Scale, 2023)},
        f \in CsvFiles, r \in DashboardTrends,
        m \in MedianAgeResponses }
    \cup
    { [DashboardIdle EXCEPT
          !.current = c, !.target = 30 * Scale - c,
          !.current_year = 2026, !.target_year = 2027] :
        c \in {0, 30 * Scale} }

\* One run of the script.  Under the test of the inputs the sections of
\* the try run one after the other, an exception skipping the sections
\* after it, and except Exception lets no exception of the try leave the
\* script; the else of the test shows its warning.
RunDashboard ==
    /\ ~dashboardRun.called
    /\ IF InputsPositive(dashboardRun)
       THEN \E pc \in {PerCapita(dashboardRun.current, dashboardRun.target,
                            dashboardRun.target_year, dashboardRun.india,
                            dashboardRun.csv)} :
            \E ps \in {IF pc.exc = ""
                       THEN ProjectedSectors(dashboardRun.trend_resps,
                                             dashboardRun.target_year)
                       ELSE SkippedSection(pc.exc)} :
            \E cmp \in {IF ps.exc = ""
                        THEN Comparison(dashboardRun.csv,
                                 pc.projected_per_capita,
                                 dashboardRun.closest_5)
                        ELSE SkippedComparison(ps.exc)} :
            \E dem \in {IF cmp.exc = ""
                        THEN Demographics(dashboardRun.india.value,
                                 pc.projected_pop, dashboardRun.target_year,
                                 dashboardRun)
                        ELSE SkippedDemographics(cmp.exc)} :
                dashboardRun' = [dashboardRun EXCEPT
                    !.called = TRUE,
                    !.shown = Shown(dashboardRun, pc, ps, cmp, dem),
                    !.assigned = Assigned(pc),
                    !.uncaught = ""]
       ELSE dashboardRun' = [dashboardRun EXCEPT
                !.called = TRUE,
                !.shown = [NothingShown EXCEPT
                              !.warning = "Please enter positive values"]]
    /\ UNCHANGED <<growthCall, popCall, gdpCall, trendCall, medianCall,
                   sunburstCall>>

InitGrowth ==
    /\ growthCall \in GrowthInputs
    /\ popCall = PopIdle
    /\ gdpCall = GdpIdle
    /\ trendCall = TrendIdle
    /\ medianCall = MedianIdle
    /\ sunburstCall = SunburstIdle
    /\ dashboardRun = DashboardIdle

SpecGrowth == InitGrowth /\ [][CalculateRequiredGrowth]_vars

InitPop ==
    /\ growthCall = GrowthIdle
    /\ popCall \in PopInputs
    /\ gdpCall = GdpIdle
    /\ trendCall = TrendIdle
    /\ medianCall = MedianIdle
    /\ sunburstCall = SunburstIdle
    /\ dashboardRun = DashboardIdle

SpecPop == InitPop /\ [][ProjectPopulation]_vars

InitGdp ==
    /\ growthCall = GrowthIdle
    /\ popCall = PopIdle
    /\ gdpCall \in GdpInputs
    /\ trendCall = TrendIdle
    /\ medianCall = MedianIdle
    /\ sunburstCall = SunburstIdle
    /\ dashboardRun = DashboardIdle

SpecGdp == InitGdp /\ [][FetchCountrySectorGdp]_vars

\* the calls in which every sector answers one entry, with a share of
\* ShareValues or None
InitShares ==
    /\ growthCall = GrowthIdle
    /\ popCall = PopIdle
    /\ \E v \in [Sectors -> ShareValues] :
          gdpCall = [GdpIdle EXCEPT
              !.resps = [s \in Sectors |->
                            RespData(<<Entry(2023, v[s])>>)]]
    /\ trendCall = TrendIdle
    /\ medianCall = MedianIdle
    /\ sunburstCall = SunburstIdle
    /\ dashboardRun = DashboardIdle

SpecShares == InitShares /\ [][FetchCountrySectorGdp]_vars

InitTrend ==
    /\ growthCall = GrowthIdle
    /\ popCall = PopIdle
    /\ gdpCall = GdpIdle
    /\ \E t \in TrendTargets, one \in Sectors :
          \/ \E r \in TrendSeriesResponses \cup TrendFailures
                       \cup TrendSameYearResponses :
                trendCall = TrendInput(t, TrendResponses(one, r))
          \/ \E r \in TrendMisses \cup {RisingSeries} :
                trendCall = TrendInput(t, TrendBeside(one, r))
    /\ medianCall = MedianIdle
    /\ sunburstCall = SunburstIdle
    /\ dashboardRun = DashboardIdle

SpecTrend == InitTrend /\ [][FetchSectorGrowthProjections]_vars

InitMedian ==
    /\ growthCall = GrowthIdle
    /\ popCall = PopIdle
    /\ gdpCall = GdpIdle
    /\ trendCall = TrendIdle
    /\ medianCall \in MedianInputs
    /\ sunburstCall = SunburstIdle
    /\ dashboardRun = DashboardIdle

SpecMedian == InitMedian /\ [][ProjectMedianAgeEvidenceBased]_vars

InitSunburst ==
    /\ growthCall = GrowthIdle
    /\ popCall = PopIdle
    /\ gdpCall = GdpIdle
    /\ trendCall = TrendIdle
    /\ medianCall = MedianIdle
    /\ sunburstCall \in SunburstInputs
    /\ dashboardRun = DashboardIdle

SpecSunburst == InitSunburst /\ [][CreateSectorSunburstChart]_vars

InitDashboard ==
    /\ growthCall = GrowthIdle
    /\ popCall = PopIdle
    /\ gdpCall = GdpIdle
    /\ trendCall = TrendIdle
    /\ medianCall = MedianIdle
    /\ sunburstCall = SunburstIdle
    /\ dashboardRun \in DashboardInputs

SpecDashboard == InitDashboard /\ [][RunDashboard]_vars

Init ==
    InitGrowth \/ InitPop \/ InitGdp \/ InitShares \/ InitTrend \/ InitMedian
        \/ InitSunburst \/ InitDashboard

Next ==
    \/ CalculateRequiredGrowth
    \/ ProjectPopulation
    \/ FetchCountrySectorGdp
    \/ FetchSectorGrowthProjections
    \/ ProjectMedianAgeEvidenceBased
    \/ CreateSectorSunburstChart
    \/ RunDashboard

Spec == Init /\ [][Next]_vars

\* ------------------------------------------------------------ claims
\* C1: calculate_required_growth returns None, and never raises, whenever
\* current <= 0 or target <= 0 or time <= 0, and returns a number whenever
\* all three are > 0.
C1_NoneIffPreconditionFails ==
    growthCall.called =>
        LET bad == \/ growthCall.current <= 0
                   \/ growthCall.target <= 0
                   \/ growthCall.time <= 0
        IN  /\ bad => growthCall.ret = None
            /\ ~bad => growthCall.ret.kind = "float"

C1_Witness ==
    /\ growthCall.called
    /\ growthCall.current = 0
    /\ growthCall.target > 0
    /\ growthCall.time > 0
    /\ growthCall.ret = None

\* C2: for current, target, time > 0 the returned rate r compounds current
\* back to target within the precision of the arithmetic: with
\* g = 1 + r/100, current * g**time <= target, and one more unit of
\* precision in g passes the target.
C2_RoundTrip ==
    (growthCall.called /\ growthCall.current > 0 /\ growthCall.target > 0
        /\ growthCall.time > 0) =>
        /\ growthCall.ret.kind = "float"
        /\ LET g == Scale + growthCall.ret.val \div 100
               c == growthCall.current
               t == growthCall.target
               n == growthCall.time
           IN  /\ growthCall.ret.val = 100 * (g - Scale)
               /\ c * FPow(g, n) <= t * Scale
               /\ t * Scale < c * FPow(g + 1, n)

C2_Witness ==
    /\ growthCall.called
    /\ growthCall.current = 4
    /\ growthCall.target = 9
    /\ growthCall.time = 2
    /\ growthCall.ret = Float(50 * Scale)

\* the population after compounding the years base + 1 .. target, written
\* from the target year downwards
RECURSIVE Compounded(_, _, _)
Compounded(p, base, target) ==
    IF target <= base THEN p
    ELSE (Compounded(p, base, target - 1) * (1000 + get_growth_rate(target)))
             \div 1000

\* C3: project_population compounds exactly once per calendar year
\* base_year + 1 .. target_year (target_year - base_year steps, base_year
\* excluded), pop_y = pop_{y-1} * (1 + rate(y)); 1000 from 2020 to 2022 at
\* 1% gives 1020.1.
C3_CompoundsOncePerYear ==
    /\ popCall.called =>
          /\ Len(popCall.years) =
                (IF popCall.target_year > popCall.base_year
                 THEN popCall.target_year - popCall.base_year ELSE 0)
          /\ \A i \in 1 .. Len(popCall.years) :
                popCall.years[i] = popCall.base_year + i
          /\ popCall.ret = Float(Compounded(popCall.base_pop,
                                 popCall.base_year, popCall.target_year))
    /\ project_population(1000 * Scale, 2020, 2022).ret
          = Float((10201 * Scale) \div 10)

C3_Witness ==
    /\ popCall.called
    /\ popCall.base_pop = 1000 * Scale
    /\ popCall.base_year = 2024
    /\ popCall.target_year = 2027
    /\ popCall.years = <<2025, 2026, 2027>>
    /\ popCall.ret.val > popCall.base_pop

\* C4: a call with target_year <= base_year is rejected with an explicit
\* failure and does not return base_population.
C4_RejectsInvalidRange ==
    (popCall.called /\ popCall.target_year <= popCall.base_year) =>
        /\ popCall.ret.kind = "raise"
        /\ popCall.ret # Float(popCall.base_pop)

\* the sectors of a call for which the World Bank returned a value
SectorsWithData(resps) ==
    {s \in Sectors : resps[s].kind = "data"
        /\ \E i \in 1 .. Len(resps[s].entries) :
              resps[s].entries[i].value # None}

\* the sum of the percentages of a returned sector_data
ReturnedTotal(ret) == SumPercentage(ret.sectors, 1)

\* every returned percentage is fetched / total * 100, the quotient rounded
\* down to the precision of the arithmetic
IsRescaled(call) ==
    LET total == SumPercentage(call.fetched, 1)
    IN  /\ DOMAIN call.ret.sectors = DOMAIN call.fetched
        /\ \A s \in DOMAIN call.fetched :
              \E q \in 0 .. Scale :
                 /\ call.ret.sectors[s].percentage = 100 * q
                 /\ q * total <= call.fetched[s].percentage * Scale
                 /\ call.fetched[s].percentage * Scale < (q + 1) * total

C6_NoneUnlessTwoSectorsAndPositiveSum ==
    gdpCall.called =>
        /\ gdpCall.ret.kind \in {"dict", "None"}
        /\ gdpCall.ret.kind = "dict" <=>
              /\ Cardinality(SectorsWithData(gdpCall.resps)) >= 2
              /\ SumPercentage(gdpCall.fetched, 1) > 0
        /\ gdpCall.ret.kind = "None" => gdpCall.ret = GdpNone

C6_Witness ==
    /\ gdpCall.called
    /\ Cardinality(SectorsWithData(gdpCall.resps)) >= 2
    /\ SumPercentage(gdpCall.fetched, 1) = 0
    /\ gdpCall.ret = GdpNone

\* the indices of the entries of a response whose value is not None: the
\* points of the historical series
PointsOf(resp) ==
    {i \in 1 .. Len(resp.entries) : resp.entries[i].value # None}

\* C7: a sector whose series has fewer than 3 points (0, 1 or 2) is absent
\* from the returned projections, the condition is reported ("Insufficient
\* data", or "No data available" for a response without entries), and no
\* exception leaves the function.
C7_FewerThanThreePointsNoResult ==
    trendCall.called =>
        /\ ~trendCall.raised
        /\ \A s \in Sectors :
              LET resp == trendCall.resps[s]
              IN  /\ (resp.kind = "data" /\ Cardinality(PointsOf(resp)) < 3) =>
                        /\ s \notin DOMAIN trendCall.projections
                        /\ trendCall.printed[s] = "Insufficient data"
                  /\ resp.kind = "nodata" =>
                        /\ s \notin DOMAIN trendCall.projections
                        /\ trendCall.printed[s] = "No data available"

C7_Witness ==
    /\ trendCall.called
    /\ \E s \in Sectors :
          /\ trendCall.resps[s].kind = "data"
          /\ Len(trendCall.resps[s].entries) = 3
          /\ Cardinality(PointsOf(trendCall.resps[s])) = 2
          /\ s \notin DOMAIN trendCall.projections
          /\ trendCall.printed[s] = "Insufficient data"

\* the sums of the least-squares fit over the points of a response, in
\* response order
RECURSIVE PointSum(_, _, _)
PointSum(resp, i, what) ==
    IF i > Len(resp.entries) THEN 0
    ELSE LET e == resp.entries[i]
             term == IF e.value = None THEN 0
                     ELSE IF what = "x" THEN e.date
                     ELSE IF what = "y" THEN e.value.val
                     ELSE IF what = "xy" THEN e.date * e.value.val
                     ELSE e.date * e.date
         IN  term + PointSum(resp, i + 1, what)

FitN(resp) == Cardinality(PointsOf(resp))
\* n*Sxy - Sx*Sy and n*Sxx - Sx^2
FitNum(resp) ==
    FitN(resp) * PointSum(resp, 1, "xy")
        - PointSum(resp, 1, "x") * PointSum(resp, 1, "y")
FitDen(resp) ==
    FitN(resp) * PointSum(resp, 1, "x2")
        - PointSum(resp, 1, "x") * PointSum(resp, 1, "x")

\* n * den * (the value of the exact least-squares line at target_year)
FitLineAt(resp, target_year) ==
    PointSum(resp, 1, "y") * FitDen(resp)
        + FitNum(resp) * (FitN(resp) * target_year - PointSum(resp, 1, "x"))

\* every point lies on the least-squares line: the points are collinear
Collinear(resp) ==
    \A i \in PointsOf(resp) :
        FitN(resp) * FitDen(resp) * resp.entries[i].value.val
            = FitLineAt(resp, resp.entries[i].date)

\* slope and intercept are the closed-form least-squares fit, each quotient
\* rounded down, and projected_value = slope * target_year + intercept
IsLeastSquaresProjection(resp, e, target_year) ==
    LET n == FitN(resp)
        sx == PointSum(resp, 1, "x")
        sy == PointSum(resp, 1, "y")
    IN  /\ n >= 3 /\ e.data_points = n
        /\ FitDen(resp) > 0
        /\ e.trend_slope * FitDen(resp) <= FitNum(resp)
        /\ FitNum(resp) < (e.trend_slope + 1) * FitDen(resp)
        /\ e.intercept * n <= sy - e.trend_slope * sx
        /\ sy - e.trend_slope * sx < (e.intercept + 1) * n
        /\ e.projected_value = e.trend_slope * target_year + e.intercept

\* the series (2010, 10), (2015, 12), (2020, 14) projected to 2025 gives 16
ExampleProjection ==
    SectorTrend(RespData(<<Entry(2010, Float(10 * Scale)),
                           Entry(2015, Float(12 * Scale)),
                           Entry(2020, Float(14 * Scale))>>), 2025)

\* the value of the exact least-squares line at target_year is a multiple
\* of 1/Scale
LineValueRepresentable(resp, target_year) ==
    FitLineAt(resp, target_year) % (FitN(resp) * FitDen(resp)) = 0

\* C8 as claimed: projected_value = slope * target_year + intercept of the
\* least-squares fit, and for collinear points the projection lies exactly
\* on their line (asked only where the value on the line is representable);
\* the example yields 16.
C8_CollinearProjectionExact ==
    /\ \A s \in DOMAIN trendCall.projections :
          LET resp == trendCall.resps[s]
              e == trendCall.projections[s]
          IN  /\ IsLeastSquaresProjection(resp, e, trendCall.target_year)
              /\ (Collinear(resp) /\ LineValueRepresentable(resp,
                                          trendCall.target_year)) =>
                    FitN(resp) * FitDen(resp) * e.projected_value
                        = FitLineAt(resp, trendCall.target_year)
    /\ ExampleProjection.entry.projected_value = 16 * Scale

\* C8 as amended: projected_value = slope * target_year + intercept of the
\* least-squares fit computed with rounding, so the projection lies on the
\* least-squares line (for collinear points: on their line) only up to the
\* rounding of slope and intercept: less than |target_year - mean year|
\* units of precision from the slope plus one from the intercept; the
\* example yields exactly 16.
C8_ProjectionOnLineWithinRounding ==
    /\ \A s \in DOMAIN trendCall.projections :
          LET resp == trendCall.resps[s]
              e == trendCall.projections[s]
              n == FitN(resp)
              off == n * trendCall.target_year - PointSum(resp, 1, "x")
          IN  /\ IsLeastSquaresProjection(resp, e, trendCall.target_year)
              /\ Abs(n * FitDen(resp) * e.projected_value
                        - FitLineAt(resp, trendCall.target_year))
                    < FitDen(resp) * (Abs(off) + n)
    /\ ExampleProjection.stored
    /\ ExampleProjection.entry.projected_value = 16 * Scale
    /\ ExampleProjection.entry.current_value = 14 * Scale

C8_Witness ==
    /\ trendCall.called
    /\ \E s \in DOMAIN trendCall.projections :
          /\ Collinear(trendCall.resps[s])
          /\ LineValueRepresentable(trendCall.resps[s], trendCall.target_year)
          /\ trendCall.projections[s].trend_slope > 0
          /\ FitN(trendCall.resps[s]) * FitDen(trendCall.resps[s])
                 * trendCall.projections[s].projected_value
               # FitLineAt(trendCall.resps[s], trendCall.target_year)

\* C9: current_value is the observed value of the point with the highest
\* year, in whatever order the points were supplied.
C9_CurrentValueIsLatestObserved ==
    \A s \in DOMAIN trendCall.projections :
        LET resp == trendCall.resps[s]
            e == trendCall.projections[s]
        IN  \E i \in PointsOf(resp) :
               /\ \A j \in PointsOf(resp) :
                     resp.entries[j].date <= resp.entries[i].date
               /\ e.last_year = resp.entries[i].date
               /\ e.current_value = resp.entries[i].value.val

\* the points arrive newest first, and the observed value differs from the
\* value of the fitted line at the last year
C9_Witness ==
    /\ trendCall.called
    /\ \E s \in DOMAIN trendCall.projections :
          LET resp == trendCall.resps[s]
              e == trendCall.projections[s]
          IN  /\ Len(resp.entries) = 3
              /\ resp.entries[1].date > resp.entries[2].date
              /\ resp.entries[2].date > resp.entries[3].date
              /\ e.current_value = resp.entries[1].value.val
              /\ e.current_value # resp.entries[3].value.val
              /\ e.current_value # e.trend_slope * e.last_year + e.intercept

\* with g = 1 + r/100: c * g**n = p up to the rounding of the quotient and
\* of g, for n >= 1 (any rate does for c = p = 0)
CompoundsTo(c, p, rate, n) ==
    LET g == Scale + rate \div 100
        ca == Abs(c)
        pa == IF c > 0 THEN p ELSE -p
    IN  IF c = 0 THEN p = 0
        ELSE /\ rate = 100 * (g - Scale)
             /\ ca * FPow(g, n) <= pa * Scale
             /\ pa * Scale < ca * FPow(g + 1, n)

\* C10 as claimed: annual_growth_rate is the compound rate r with
\* current_value * (1+r)^(target_year - last_year) = projected_value, as a
\* percentage, and exactly 0 when target_year = last_year.  (Nothing is
\* asked here of a complex rate.)
C10_RateSolvesCompoundEquation ==
    \A s \in DOMAIN trendCall.projections :
        LET e == trendCall.projections[s]
            d == trendCall.target_year - e.last_year
            r == e.annual_growth_rate
        IN  /\ d = 0 => r = Float(0)
            /\ (d > 0 /\ r.kind = "float") =>
                  CompoundsTo(e.current_value, e.projected_value, r.val, d)
            /\ (d < 0 /\ r.kind = "float") =>
                  CompoundsTo(e.projected_value, e.current_value, r.val, -d)

\* C10 as amended: annual_growth_rate is exactly 0 whenever
\* target_year <= last_year; for target_year > last_year a real rate is
\* the compound rate r with current_value * (1+r)^(target_year - last_year)
\* = projected_value, as a percentage, and the rate is a complex number
\* exactly when target_year - last_year >= 2 and projected_value and
\* current_value have opposite signs.
C10_RateIsCompoundRateOrZero ==
    \A s \in DOMAIN trendCall.projections :
        LET e == trendCall.projections[s]
            d == trendCall.target_year - e.last_year
            r == e.annual_growth_rate
        IN  /\ r.kind \in {"float", "complex"}
            /\ d <= 0 => r = Float(0)
            /\ (d > 0 /\ r.kind = "float") =>
                  CompoundsTo(e.current_value, e.projected_value, r.val, d)
            /\ r.kind = "complex" <=>
                  /\ d >= 2
                  /\ \/ e.projected_value > 0 /\ e.current_value < 0
                     \/ e.projected_value < 0 /\ e.current_value > 0

C10_Witness ==
    /\ trendCall.called
    /\ \E s \in DOMAIN trendCall.projections :
          /\ trendCall.target_year - trendCall.projections[s].last_year >= 2
          /\ trendCall.projections[s].annual_growth_rate.kind = "float"
          /\ trendCall.projections[s].annual_growth_rate.val > 0

\* the observed value of the point with the highest year of a response
CurrentObserved(resp) ==
    LET i == CHOOSE i \in PointsOf(resp) :
                \A j \in PointsOf(resp) :
                    resp.entries[j].date <= resp.entries[i].date
    IN  resp.entries[i].value.val

\* C11: for a series of at least 3 points whose current_value is <= 0 or
\* whose ratio projected_value / current_value is negative, the sector is
\* still in the returned projections with its linear projection, the stored
\* growth rate is a real number, and a condition distinct from a failure
\* of the sector is reported.
C11_NonComputableRateReported ==
    trendCall.called =>
        \A s \in Sectors :
            LET resp == trendCall.resps[s]
                stored == s \in DOMAIN trendCall.projections
                nonComputable ==
                    \/ CurrentObserved(resp) <= 0
                    \/ /\ stored
                       /\ \/ /\ trendCall.projections[s].projected_value < 0
                             /\ trendCall.projections[s].current_value > 0
                          \/ /\ trendCall.projections[s].projected_value > 0
                             /\ trendCall.projections[s].current_value < 0
            IN  (resp.kind = "data" /\ Cardinality(PointsOf(resp)) >= 3
                    /\ nonComputable) =>
                   /\ stored
                   /\ trendCall.projections[s].annual_growth_rate.kind
                         = "float"
                   /\ trendCall.printed[s]
                         \notin {"", "Error fetching", "API request failed"}

\* the calls of project_median_age_evidence_based made so far
MedianCalls ==
    (IF medianCall.called THEN {medianCall.first} ELSE {})
        \cup (IF medianCall.again THEN {medianCall.second} ELSE {})

\* (last.value - first.value) / (last.year - first.year) of a series whose
\* first and last years differ, the quotient rounded down
SecantSlope(series) ==
    LET n == Len(series)
        dv == series[n][2] - series[1][2]
        dy == series[n][1] - series[1][1]
    IN  IF dy > 0 THEN dv \div dy ELSE (-dv) \div (-dy)

\* C12: for every historical series of at least 2 points whose last year
\* differs from its first year, annual_increase is
\* (last.value - first.value) / (last.year - first.year).
C12_SlopeOfFirstAndLastPoint ==
    \A c \in MedianCalls :
        LET series == c.historical_data
        IN  (Len(series) >= 2 /\ series[Len(series)][1] # series[1][1]) =>
               c.annual_increase = SecantSlope(series)

\* C13: with a series of fewer than 2 points, or one whose last year equals
\* its first year, annual_increase is the fixed 0.3 and the call returns a
\* number: nothing is divided by zero and nothing is raised.
C13_FallbackIncrease ==
    \A c \in MedianCalls :
        LET series == c.historical_data
        IN  /\ c.ret.kind = "float"
            /\ (Len(series) < 2 \/ series[Len(series)][1] = series[1][1]) =>
                  /\ c.annual_increase = DefaultIncrease
                  /\ DefaultIncrease * 10 = 3 * Scale

C13_Witness ==
    /\ medianCall.called
    /\ Len(medianCall.first.historical_data) = 2
    /\ medianCall.first.historical_data[1][1]
          = medianCall.first.historical_data[2][1]
    /\ medianCall.first.historical_data[1][2]
          # medianCall.first.historical_data[2][2]
    /\ medianCall.first.annual_increase = DefaultIncrease
    /\ medianCall.again
    /\ medianCall.second.resp.kind = "data"
    /\ medianCall.second.historical_data = << >>
    /\ medianCall.second.annual_increase = DefaultIncrease

\* C14: on the trend path and on the fallback path the returned age is
\* current_age + annual_increase * (target_year - base_year) rounded to one
\* decimal place: a multiple of 0.1 at most 0.05 from the sum; with
\* target_year = base_year it is current_age itself.
C14_RoundedProjection ==
    \A c \in MedianCalls :
        LET sum == medianCall.current_age
                     + c.annual_increase
                         * (medianCall.target_year - medianCall.base_year)
        IN  /\ c.ret.kind = "float"
            /\ c.ret.val % (Scale \div 10) = 0
            /\ 2 * Abs(c.ret.val - sum) <= Scale \div 10
            /\ medianCall.target_year = medianCall.base_year =>
                  c.ret = Float(medianCall.current_age)

C14_Witness ==
    /\ medianCall.again
    /\ medianCall.target_year = medianCall.base_year
    /\ medianCall.current_age = Age(287)
    /\ medianCall.first.annual_increase # DefaultIncrease
    /\ medianCall.first.ret = Float(Age(287))
    /\ medianCall.second.annual_increase = DefaultIncrease
    /\ Len(medianCall.second.historical_data) < 2
    /\ medianCall.second.ret = Float(Age(287))

\* C15: two calls with the same current_age, base_year and target_year
\* return the same projected age: the result depends on nothing but the
\* arguments.
C15_SameArgumentsSameResult ==
    medianCall.again => medianCall.second.ret = medianCall.first.ret

\* the rate a schedule gives a year: that of the first band whose last year
\* is >= the year, the final rate after the last band
RECURSIVE RateOf(_, _, _)
RateOf(schedule, year, i) ==
    IF i > Len(schedule.bands) THEN schedule.final
    ELSE IF year <= schedule.bands[i][1] THEN schedule.bands[i][2]
    ELSE RateOf(schedule, year, i + 1)

\* the population compounded over base + 1 .. target at the rates of a
\* schedule
RECURSIVE CompoundedWith(_, _, _, _)
CompoundedWith(schedule, p, base, target) ==
    IF target <= base THEN p
    ELSE (CompoundedWith(schedule, p, base, target - 1)
              * (1000 + RateOf(schedule, target, 1))) \div 1000

\* C16: every year of a projection gets exactly one rate, that of the first
\* matching band: 1.0% up to 2025, 0.8% for 2026..2030, 0.5% for 2031..2040
\* and 0.3% after 2040; the thresholds increase strictly and every year
\* base_year + 1 .. target_year is covered.
C16_DefaultScheduleBands ==
    /\ \A i \in 1 .. Len(DefaultSchedule.bands) - 1 :
          DefaultSchedule.bands[i][1] < DefaultSchedule.bands[i + 1][1]
    /\ popCall.called =>
          /\ \A y \in popCall.base_year + 1 .. popCall.target_year :
                /\ \E i \in 1 .. Len(popCall.years) : popCall.years[i] = y
                /\ get_growth_rate(y) \in {10, 8, 5, 3}
                /\ get_growth_rate(y) = 10 <=> y <= 2025
                /\ get_growth_rate(y) = 8 <=> (2026 <= y /\ y <= 2030)
                /\ get_growth_rate(y) = 5 <=> (2031 <= y /\ y <= 2040)
                /\ get_growth_rate(y) = 3 <=> y > 2040
                /\ get_growth_rate(y) = RateOf(DefaultSchedule, y, 1)
          /\ popCall.ret = Float(CompoundedWith(DefaultSchedule,
                popCall.base_pop, popCall.base_year, popCall.target_year))

C16_Witness ==
    /\ popCall.called
    /\ popCall.base_year = 2024
    /\ popCall.target_year = 2041
    /\ Len(popCall.years) = 17
    /\ popCall.ret.val > popCall.base_pop

\* C17: the rates applied by a projection are those of the schedule the
\* caller supplies, a flat 1% schedule for example.
C17_AppliesSuppliedSchedule ==
    popCall.called =>
        popCall.ret = Float(CompoundedWith(popCall.schedule,
              popCall.base_pop, popCall.base_year, popCall.target_year))

\* the returned sector_data normalized once more
Renormalized == normalize(gdpCall.ret.sectors)

\* a share set of the three sectors, and of agriculture and industry only
Shares3(a, i, s) ==
    [x \in Sectors |->
        [percentage |-> (IF x = "agriculture" THEN a
                         ELSE IF x = "industry" THEN i ELSE s) * Scale,
         year |-> 2023]]
Shares2(a, i) ==
    [x \in {"agriculture", "industry"} |->
        [percentage |-> (IF x = "agriculture" THEN a ELSE i) * Scale,
         year |-> 2023]]

\* {10, 10, 80} is returned unchanged and {1, 1} becomes {50, 50}
NormalizeExamples ==
    /\ normalize(Shares3(10, 10, 80)).sectors = Shares3(10, 10, 80)
    /\ normalize(Shares2(1, 1)).sectors = Shares2(50, 50)

\* C18 as claimed: normalizing a share set that sums to 100 returns the
\* same values, and normalizing a normalized result again changes nothing.
C18_IdempotentExactly ==
    /\ (gdpCall.called /\ gdpCall.ret.kind = "dict") =>
          /\ Renormalized.kind = "dict"
          /\ Renormalized.sectors = gdpCall.ret.sectors
          /\ SumPercentage(gdpCall.fetched, 1) = 100 * Scale =>
                gdpCall.ret.sectors = gdpCall.fetched
    /\ NormalizeExamples

\* C18 as amended: normalizing a share set that sums to 100, or a
\* normalized result again, returns the same values up to the rounding of
\* the quotients: no percentage moves by as much as one unit of precision
\* of the quotient per sector; {10, 10, 80} is unchanged and {1, 1} becomes
\* {50, 50} exactly.
C18_IdempotentWithinRounding ==
    /\ (gdpCall.called /\ gdpCall.ret.kind = "dict") =>
          LET n == Cardinality(DOMAIN gdpCall.ret.sectors)
          IN  /\ Renormalized.kind = "dict"
              /\ DOMAIN Renormalized.sectors = DOMAIN gdpCall.ret.sectors
              /\ \A s \in DOMAIN gdpCall.ret.sectors :
                    /\ Renormalized.sectors[s].year
                          = gdpCall.ret.sectors[s].year
                    /\ Abs(Renormalized.sectors[s].percentage
                             - gdpCall.ret.sectors[s].percentage) < 100 * n
              /\ SumPercentage(gdpCall.fetched, 1) = 100 * Scale =>
                    \A s \in DOMAIN gdpCall.fetched :
                       Abs(gdpCall.ret.sectors[s].percentage
                             - gdpCall.fetched[s].percentage) < 100 * n
    /\ NormalizeExamples

C18_Witness ==
    /\ gdpCall.called
    /\ gdpCall.ret.kind = "dict"
    /\ gdpCall.fetched = Shares3(1, 2, 10)
    /\ Renormalized.sectors # gdpCall.ret.sectors
    /\ Renormalized.sectors["agriculture"] = gdpCall.ret.sectors["agriculture"]

\* C19: calculate_required_growth(c, c, n) is 0 for every c > 0 and every
\* n > 0.
C19_NoGrowthAtTarget ==
    (growthCall.called /\ growthCall.current > 0
        /\ growthCall.target = growthCall.current /\ growthCall.time > 0) =>
        growthCall.ret = Float(0)

C19_Witness ==
    /\ growthCall.called
    /\ growthCall.current = MaxAmount
    /\ growthCall.target = MaxAmount
    /\ growthCall.time = MaxTime
    /\ growthCall.ret = Float(0)

\* C20: the breakdown returned by fetch_india_sector_gdp has ten sectors
\* and its percentages add up to exactly 100.
C20_IndiaBreakdownSumsTo100 ==
    sunburstCall.called =>
        /\ Cardinality(DOMAIN sunburstCall.sector_data) = 10
        /\ DOMAIN sunburstCall.sector_data
              = {IndiaSectorOrder[i] : i \in 1 .. Len(IndiaSectorOrder)}
        /\ GroupTotal(sunburstCall.sector_data, IndiaSectorOrder)
              = 100 * Scale

C20_Witness ==
    /\ sunburstCall.called
    /\ sunburstCall.sector_data["other_services"].percentage = 21 * Scale
    /\ sunburstCall.sector_data["agriculture"].percentage = Tenths(162)
    /\ Len(sunburstCall.values) = 13

\* C21: a series of at least 3 points that all share one year (slope
\* denominator n*Sxx - Sx^2 = 0) leaves its sector out of the returned
\* projections, the failure is reported for the sector, and no exception
\* leaves the function.
C21_DegenerateFitIsAbsent ==
    trendCall.called =>
        /\ ~trendCall.raised
        /\ \A s \in Sectors :
              LET resp == trendCall.resps[s]
              IN  (resp.kind = "data" /\ FitN(resp) >= 3
                      /\ FitDen(resp) = 0) =>
                     /\ s \notin DOMAIN trendCall.projections
                     /\ trendCall.printed[s] = "Error fetching"

C21_Witness ==
    /\ trendCall.called
    /\ \E s \in Sectors :
          LET resp == trendCall.resps[s]
          IN  /\ resp.kind = "data"
              /\ FitN(resp) >= 3
              /\ \A i \in PointsOf(resp) : resp.entries[i].date = TrendLastYear
              /\ \E i, j \in PointsOf(resp) :
                    resp.entries[i].value # resp.entries[j].value
              /\ FitDen(resp) = 0
              /\ s \notin DOMAIN trendCall.projections

\* the run passed the test of the inputs that guards the try
InputsAccepted ==
    /\ dashboardRun.current > 0
    /\ dashboardRun.target > 0
    /\ dashboardRun.target_year > dashboardRun.current_year

\* the sectors for which fetch_sector_growth_projections has a projection
ProjectedKeys ==
    DOMAIN fetch_sector_growth_projections(dashboardRun.trend_resps,
               dashboardRun.target_year).projections

\* C22: for every combination of fetch outcomes, one run of the dashboard
\* lets no exception leave the script and shows a placeholder or a
\* warning for every absent result: 'N/A' for the latest growth rate and
\* the dependency ratio, a warning for the population and for the sector
\* projections, 'No code' and 'No data' for a comparison country, and a
\* warning of the comparison section when the population fetch failed and
\* projected_per_capita was never assigned.
C22_AbsentResultsShownAsPlaceholders ==
    dashboardRun.called =>
        LET shown == dashboardRun.shown
            india_pop == dashboardRun.india.value
        IN  /\ dashboardRun.uncaught = ""
            /\ shown.error = ""
            /\ ~InputsAccepted => shown.warning # ""
            /\ InputsAccepted =>
                /\ shown.growth = "value"
                /\ dashboardRun.latest.value = None => shown.latest = "N/A"
                /\ ~Truthy(india_pop) =>
                      /\ shown.per_capita = "Could not fetch India's population"
                      /\ shown.comparison # ""
                      /\ shown.countries = << >>
                /\ dashboardRun.csv # "read" =>
                      /\ shown.comparison # ""
                      /\ Truthy(india_pop) => shown.closest # "list"
                /\ ProjectedKeys = {} =>
                      shown.projected
                          = "Could not fetch sector growth projections"
                /\ (Truthy(india_pop) /\ dashboardRun.csv = "read") =>
                      /\ Len(shown.countries) = Len(dashboardRun.closest_5)
                      /\ \A i \in 1 .. Len(dashboardRun.closest_5) :
                            LET country == dashboardRun.closest_5[i]
                            IN  /\ ~country.has_code =>
                                      shown.countries[i] = "No code"
                                /\ (country.has_code
                                    /\ fetch_country_sector_gdp(
                                           country.resps).kind = "None") =>
                                      shown.countries[i] = "No data"
                /\ (shown.demographics.rendered
                    /\ dashboardRun.dependency.value = None) =>
                      shown.demographics.dependency_ratio = "N/A"

\* a run in which the population fetch failed while the CSV was read: the
\* comparison section met the unassigned projected_per_capita and showed
\* its warning, and the sections after it were still run
C22_Witness ==
    /\ dashboardRun.called
    /\ InputsAccepted
    /\ dashboardRun.india = NoResult
    /\ dashboardRun.csv = "read"
    /\ dashboardRun.latest = NoResult
    /\ dashboardRun.assigned.projected_per_capita = Unbound
    /\ dashboardRun.shown.comparison
         = "Could not fetch comparison country data: name 'projected_per_capita' is not defined"
    /\ dashboardRun.shown.projected
         = "Could not fetch sector growth projections"
    /\ dashboardRun.shown.latest = "N/A"

\* a population and its year were fetched and the target year is later
PopulationBeforeTarget ==
    /\ dashboardRun.india.value # None
    /\ dashboardRun.india.date # None
    /\ dashboardRun.target_year > dashboardRun.india.date.val

\* C23: the dashboard calls project_population only when a population and
\* its year were fetched and target_year > that year, and then with these
\* three arguments; in every other case it makes no call and projected_pop
\* stays None.
C23_ProjectsOnlyBeforeTargetYear ==
    (dashboardRun.called /\ InputsAccepted) =>
        LET calls == dashboardRun.assigned.calls
        IN  /\ Len(calls) <= 1
            /\ \A i \in 1 .. Len(calls) :
                  /\ PopulationBeforeTarget
                  /\ calls[i] = <<dashboardRun.india.value.val,
                                  dashboardRun.india.date.val,
                                  dashboardRun.target_year>>
                  /\ calls[i][3] > calls[i][2]
            /\ ~PopulationBeforeTarget =>
                  /\ calls = << >>
                  /\ dashboardRun.assigned.projected_pop = None

\* a run in which the population was fetched for a year after the target
\* year: no call was made, projected_pop is None and the per capita
\* figures were still computed
C23_Witness ==
    /\ dashboardRun.called
    /\ InputsAccepted
    /\ Truthy(dashboardRun.india.value)
    /\ dashboardRun.india.date.val > dashboardRun.target_year
    /\ dashboardRun.assigned.calls = << >>
    /\ dashboardRun.assigned.projected_pop = None
    /\ dashboardRun.shown.per_capita = "values"

\* C28: whenever the dashboard computes the projected per capita GDP, it
\* divides the target by the projected population if a projection was
\* produced and by the fetched population otherwise, and the divisor is
\* neither None nor zero; the demographic section is rendered only when the
\* fetched and the projected population both exist.
C28_DivisorIsAPopulation ==
    (dashboardRun.called /\ InputsAccepted) =>
        LET assigned == dashboardRun.assigned
            india_pop == dashboardRun.india.value
            divisor == assigned.population_for_projection
        IN  /\ assigned.projected_per_capita # Unbound =>
                /\ divisor = IF assigned.projected_pop # None
                             THEN assigned.projected_pop ELSE india_pop
                /\ divisor.kind = "float"
                /\ divisor.val # 0
                /\ assigned.projected_per_capita
                     = Float(FDiv(dashboardRun.target, divisor.val))
            /\ Truthy(india_pop) => assigned.projected_per_capita # Unbound
            /\ dashboardRun.shown.demographics.rendered =>
                /\ Truthy(india_pop)
                /\ assigned.projected_pop # None
                /\ assigned.projected_pop.val # 0

\* a run with a population of the target year or later: no projection was
\* produced, the target was divided by the fetched population and the
\* demographic section was left out
C28_Witness ==
    /\ dashboardRun.called
    /\ InputsAccepted
    /\ Truthy(dashboardRun.india.value)
    /\ dashboardRun.assigned.projected_pop = None
    /\ dashboardRun.assigned.population_for_projection
         = dashboardRun.india.value
    /\ dashboardRun.assigned.projected_per_capita.kind = "float"
    /\ ~dashboardRun.shown.demographics.rendered

\* C24: project_median_age_evidence_based uses the two-point slope only
\* when the last year of the series is greater than its first year; for a
\* series whose last year is less than or equal to its first year, such as
\* one listed newest first, the annual increase is the fixed 0.3 and the
\* call returns current_age + 0.3 * (target_year - base_year) rounded to
\* one decimal place.
C24_SlopeOnlyForAscendingYears ==
    \A c \in MedianCalls :
        LET series == c.historical_data
            n == Len(series)
            years_to_project == medianCall.target_year - medianCall.base_year
        IN  /\ (n >= 2 /\ series[n][1] > series[1][1]) =>
                  c.annual_increase = SecantSlope(series)
            /\ (n >= 1 /\ series[n][1] <= series[1][1]) =>
                  /\ c.annual_increase = DefaultIncrease
                  /\ c.ret = Float(Round1(medianCall.current_age
                                 + Age(3) * years_to_project))

\* a call answered with a series listed newest first whose two ends give
\* a slope other than 0.3: the increase is 0.3 and the age projected over
\* more than one year is current_age + 0.3 per year
C24_Witness ==
    /\ medianCall.called
    /\ medianCall.target_year > medianCall.base_year + 1
    /\ LET series == medianCall.first.historical_data
           n == Len(series)
       IN  /\ n >= 2
           /\ series[n][1] < series[1][1]
           /\ SecantSlope(series) # DefaultIncrease
           /\ medianCall.first.annual_increase = DefaultIncrease
           /\ medianCall.first.ret
                = Float(medianCall.current_age
                          + Age(3) * (medianCall.target_year
                                        - medianCall.base_year))

\* the computation of a sector ran to its end: a response with at least 3
\* points, not all of one year, and nothing printed for the sector
TrendCompleted(s) ==
    /\ trendCall.resps[s].kind = "data"
    /\ FitN(trendCall.resps[s]) >= 3
    /\ FitDen(trendCall.resps[s]) # 0
    /\ trendCall.printed[s] = ""

\* C25: fetch_sector_growth_projections treats the sectors independently:
\* the returned keys are sectors whose computation completed, and putting
\* any other response (a failure or a good series) in the place of one
\* sector's response leaves the presence and the entry of every other
\* sector as they are.
C25_SectorsIndependent ==
    trendCall.called =>
        /\ DOMAIN trendCall.projections \subseteq Sectors
        /\ \A s \in DOMAIN trendCall.projections : TrendCompleted(s)
        /\ \A f \in Sectors, r \in TrendMisses \cup {RisingSeries} :
              LET other == fetch_sector_growth_projections(
                               [trendCall.resps EXCEPT ![f] = r],
                               trendCall.target_year).projections
              IN  \A s \in Sectors \ {f} :
                     /\ s \in DOMAIN other <=> s \in DOMAIN trendCall.projections
                     /\ s \in DOMAIN other =>
                           other[s] = trendCall.projections[s]

\* a call in which the request of the first sector raised and the two
\* later sectors have their entries, each the entry of the rising series
C25_Witness ==
    /\ trendCall.called
    /\ trendCall.resps["agriculture"] = RespException
    /\ trendCall.printed["agriculture"] = "Error fetching"
    /\ DOMAIN trendCall.projections = {"industry", "services"}
    /\ trendCall.projections["industry"].current_value = 2 * Scale
    /\ trendCall.projections["services"]
         = trendCall.projections["industry"]

\* the sum of the values of the entries whose parent is group
ChildrenSum(group) ==
    PySum([j \in 1 .. Len(sunburstCall.parents) |->
              IF sunburstCall.parents[j] = group
              THEN sunburstCall.values[j] ELSE 0])

\* the labels of the entries whose parent is group
ChildrenOf(group) ==
    { sunburstCall.labels[j] :
        j \in {k \in 1 .. Len(sunburstCall.parents) :
                  sunburstCall.parents[k] = group} }

\* C26: in the sunburst chart every detailed sector has one entry, whose
\* parent is one of the three groups; Agriculture has the child Farming,
\* Industry the four industry sectors and Services the five service
\* sectors; the value of each group is the sum of the values of its
\* children, and the three group values sum to the total of the detailed
\* sectors.
C26_GroupIsSumOfChildren ==
    sunburstCall.called =>
        LET labels == sunburstCall.labels
            parents == sunburstCall.parents
            values == sunburstCall.values
            n == Len(labels)
        IN  /\ Len(parents) = n /\ Len(values) = n
            /\ n = 3 + Len(IndiaSectorOrder)
            /\ \A i \in 1 .. 3 : parents[i] = ""
            /\ \A i, j \in 1 .. n : labels[i] = labels[j] => i = j
            /\ \A j \in 4 .. n : \E i \in 1 .. 3 : parents[j] = labels[i]
            /\ ChildrenOf("Agriculture") = {"Farming"}
            /\ ChildrenOf("Industry")
                 = {"Manufacturing", "Construction", "Mining", "Utilities"}
            /\ ChildrenOf("Services")
                 = {"Trade Hotels", "Financial Services", "Real Estate",
                    "Public Admin", "Other Services"}
            /\ \A i \in 1 .. 3 : values[i] = ChildrenSum(labels[i])
            /\ values[1] + values[2] + values[3]
                 = PySum([j \in 1 .. n - 3 |-> values[j + 3]])

\* the chart of the India breakdown: 13 entries, Industry 25.8 and
\* Services 58.0 over their children, Farming under Agriculture
C26_Witness ==
    /\ sunburstCall.called
    /\ Len(sunburstCall.labels) = 13
    /\ sunburstCall.labels[4] = "Farming"
    /\ sunburstCall.parents[4] = "Agriculture"
    /\ sunburstCall.values[1] = Tenths(162)
    /\ sunburstCall.values[2] = Tenths(258)
    /\ sunburstCall.values[3] = Tenths(580)
    /\ ChildrenSum("Industry") = Tenths(258)

\* C27: project_population composes over an intermediate year: for the
\* years a <= b <= c, projecting from a to b and the result from b to c
\* gives what projecting from a to c gives.
C27_ComposesOverIntermediateYear ==
    (popCall.called /\ popCall.base_year <= popCall.target_year) =>
        \A b \in popCall.base_year .. popCall.target_year :
            LET first == project_population(popCall.base_pop,
                             popCall.base_year, b)
                second == project_population(first.ret.val, b,
                              popCall.target_year)
            IN  /\ first.ret.kind = "float"
                /\ second.ret = popCall.ret
                /\ first.years \o second.years = popCall.years

\* a projection from 2024 to 2032 that equals the projection to 2027,
\* through two rate bands, continued from there through a third
C27_Witness ==
    /\ popCall.called
    /\ popCall.base_year = 2024
    /\ popCall.target_year = 2032
    /\ popCall.ret.val > popCall.base_pop
    /\ LET first == project_population(popCall.base_pop, 2024, 2027)
       IN  /\ first.ret.val > popCall.base_pop
           /\ first.ret.val < popCall.ret.val
           /\ project_population(first.ret.val, 2027, 2032).ret = popCall.ret

\* the sector_name and the percentage of the i-th call of get_ai_insight
\* made for the chart
InsightSubject(i) ==
    [sector_name |-> IF sunburstCall.labels[i] = "Farming"
                     THEN "Agriculture" ELSE sunburstCall.labels[i],
     percentage |-> sunburstCall.values[i]]

\* C29: with the India sector data, get_ai_insight always returns a string;
\* under a provider other than openai, huggingface and local_llm it is the
\* enhanced static insight, and under each of these three every failure (a
\* missing API key for openai and huggingface, a status other than 200, an
\* exception of the request or of the reading of the body) gives the
\* enhanced static insight for the same sector and percentage.
C29_InsightFallsBackToStatic ==
    sunburstCall.called =>
        /\ Len(sunburstCall.hover_texts) = Len(sunburstCall.labels)
        /\ \A i \in 1 .. Len(sunburstCall.hover_texts) :
              LET insight == sunburstCall.hover_texts[i]
                  subject == InsightSubject(i)
                  static == [kind |-> "str", source |-> "static",
                             sector_name |-> subject.sector_name,
                             percentage |-> subject.percentage]
                  provider == sunburstCall.provider
                  failed ==
                      \/ provider \in {"openai", "huggingface"}
                            /\ ~sunburstCall.has_key
                      \/ sunburstCall.outcomes[i] # "ok"
              IN  /\ insight.kind = "str"
                  /\ insight.sector_name = subject.sector_name
                  /\ insight.percentage = subject.percentage
                  /\ provider \notin {"openai", "huggingface", "local_llm"}
                        => insight = static
                  /\ (provider \in {"openai", "huggingface", "local_llm"}
                        /\ failed) => insight = static

\* a chart drawn under local_llm whose endpoint answered the first three
\* requests and then sent bodies without the expected key: three written
\* insights, then the static insight of each detailed sector
C29_Witness ==
    /\ sunburstCall.called
    /\ sunburstCall.provider = "local_llm"
    /\ sunburstCall.outcomes[3] = "ok"
    /\ sunburstCall.outcomes[4] = "malformed"
    /\ sunburstCall.hover_texts[3].source = "llm"
    /\ sunburstCall.hover_texts[4]
         = [kind |-> "str", source |-> "static",
            sector_name |-> "Agriculture", percentage |-> Tenths(162)]
    /\ sunburstCall.hover_texts[13].source = "static"

=============================================================================
